---- MODULE Spec2Model ----
(***************************************************************************)
(* Formulation engine of the production optimization problem:              *)
(* ManufacturingOptimizer.build_model and the constraint builders it       *)
(* calls, BaseOptimizer.solve, and the reporting loop of                   *)
(* run_production_problem.  A constraint family is the set of rows its     *)
(* rule returns, one row per index the rule does not skip; a row is a      *)
(* linear (in)equality lhs rel rhs over references to the model's decision *)
(* variables.                                                              *)
(***************************************************************************)
EXTENDS Integers, Sequences, FiniteSets, TLC

VARIABLES
    pc,                     \* position of the run
    error,                  \* exception that ended the run ("" = none)
    materials, all_equipment, formulas, minimum_units_in_batch, t0, tmax,
    index_args,             \* index lists passed to the constructor
    build_args,             \* arguments of build_model
    built,                  \* attributes of the optimizer that are not None
    production, filled_demand, inventory_quantity, purchased_quantity,
    equipment_status,
    initial_inventory, inventory_tmax_goe_than_safety_stock,
    no_production_at_t0, components_cannot_be_produced,
    production_doesnt_exceed_capacity,
    equipment_status_is_active_when_producing,
    equipment_status_loe_than_production,
    max_continuous_production_time_limit,
    material_flow_balance,
    no_filled_demand_at_t0, filled_demand_loe_than_demand,
    only_components_can_be_purchased, no_purchasing_when_factory_is_closed,
    objective_args,         \* costs and selling_prices of build_model
    objective,
    solver_calls,           \* invocations of the external solver
    termination_condition,  \* of the last invocation ("" = none yet)
    solution,               \* the values the solver loaded into the variables
    results,                \* BaseOptimizer.results
    reports                 \* the tables run_production_problem writes

ctor_vars == <<materials, all_equipment, formulas, minimum_units_in_batch,
               t0, tmax, index_args, build_args>>
objective_vars == <<objective_args, objective>>
solve_vars == <<solver_calls, termination_condition, solution, results>>
tail_vars == <<objective_vars, solve_vars, reports>>
var_vars == <<production, filled_demand, inventory_quantity,
              purchased_quantity, equipment_status>>
inventory_vars == <<initial_inventory, inventory_tmax_goe_than_safety_stock>>
production_vars == <<no_production_at_t0, components_cannot_be_produced,
                     production_doesnt_exceed_capacity,
                     equipment_status_is_active_when_producing,
                     equipment_status_loe_than_production,
                     max_continuous_production_time_limit>>
flow_vars == <<material_flow_balance>>
demand_vars == <<no_filled_demand_at_t0, filled_demand_loe_than_demand>>
purchasing_vars == <<only_components_can_be_purchased,
                     no_purchasing_when_factory_is_closed>>
vars == <<pc, error, built, ctor_vars, var_vars, inventory_vars,
          production_vars, flow_vars, demand_vars, purchasing_vars,
          tail_vars>>

(***************************************************************************)
(* Bounds of the explored inputs.                                          *)
(***************************************************************************)
MaxTime == 33

(***************************************************************************)
(* Program constants.                                                      *)
(***************************************************************************)
HoursInDay == 24
OpeningHour == 8
ClosingHour == 20
BIG_M == 100000000
max_equipment_production_continuous_time == 4
demand_filling_time == 8

(***************************************************************************)
(* Sequences: Python lists, and the nested "for" of a comprehension.       *)
(***************************************************************************)
ToSet(seq) == {seq[i] : i \in DOMAIN seq}

range(a, b) == [i \in 1..(b - a) |-> a + i - 1]

\* [ <<x, y>> for x in xs for y in ys ]
Nested2(xs, ys) ==
    [i \in 1..(Len(xs) * Len(ys)) |->
        <<xs[((i - 1) \div Len(ys)) + 1], ys[((i - 1) % Len(ys)) + 1]>>]

\* [ <<x, y, z>> for x in xs for y in ys for z in zs ]
Nested3(xs, ys, zs) ==
    LET xy == Nested2(xs, ys)
        p == Nested2(xy, zs)
    IN [i \in DOMAIN p |-> <<p[i][1][1], p[i][1][2], p[i][2]>>]

\* [ <<w, x, y, z>> for w in ws for x in xs for y in ys for z in zs ]
Nested4(ws, xs, ys, zs) ==
    LET wxy == Nested3(ws, xs, ys)
        p == Nested2(wxy, zs)
    IN [i \in DOMAIN p |-> <<p[i][1][1], p[i][1][2], p[i][1][3], p[i][2]>>]

\* pandas Series.unique().tolist(): first occurrences, in order
RECURSIVE unique(_)
unique(seq) ==
    IF seq = <<>> THEN <<>>
    ELSE LET front == unique(SubSeq(seq, 1, Len(seq) - 1))
             last == seq[Len(seq)]
         IN IF last \in ToSet(front) THEN front ELSE Append(front, last)

(***************************************************************************)
(* utils.py: the index builders.                                           *)
(***************************************************************************)
\* mutant: the last period left out
build_material_time_indexes_before_last(ms, first, last) ==
    Nested2(ms, range(first, last))

build_material_time_indexes(ms, first, last) ==
    Nested2(ms, range(first, last + 1))

build_single_material_equipment_formula_time_index(material, equipment, formula, time) ==
    <<material, equipment, formula, time>>

build_material_equipment_formula_time_indexes(ms, es, fs, first, last) ==
    LET p == Nested4(ms, es, fs, range(first, last + 1))
    IN [i \in DOMAIN p |->
          build_single_material_equipment_formula_time_index(
              p[i][1], p[i][2], p[i][3], p[i][4])]

build_equipment_formula_time_indexes(es, fs, first, last) ==
    Nested3(es, fs, range(first, last + 1))

build_equipment_time_indexes(es, first, last) ==
    Nested2(es, range(first, last + 1))

(***************************************************************************)
(* Linear expressions over variable references <<family, index>>.          *)
(***************************************************************************)
NoTerms == [v \in {} |-> 0]

Ref(family, index) == <<family, index>>

Const(c) == [terms |-> NoTerms, const |-> c]

Term(coef, ref) == [terms |-> (ref :> coef), const |-> 0]

Coef(expr, ref) == IF ref \in DOMAIN expr.terms THEN expr.terms[ref] ELSE 0

Plus(a, b) ==
    [terms |-> [v \in (DOMAIN a.terms) \cup (DOMAIN b.terms) |->
                   Coef(a, v) + Coef(b, v)],
     const |-> a.const + b.const]

Times(k, a) ==
    [terms |-> [v \in DOMAIN a.terms |-> k * a.terms[v]],
     const |-> k * a.const]

Minus(a, b) == Plus(a, Times(-1, b))

\* Python sum() of a list of expressions: 0 + e1 + ... + en, added up by
\* halves (the addition of linear expressions is associative)
RECURSIVE sum(_)
sum(exprs) ==
    IF exprs = <<>> THEN Const(0)
    ELSE IF Len(exprs) = 1 THEN Plus(Const(0), exprs[1])
    ELSE LET half == Len(exprs) \div 2
         IN Plus(sum(SubSeq(exprs, 1, half)),
                 sum(SubSeq(exprs, half + 1, Len(exprs))))

Row(index, lhs, rel, rhs) ==
    [index |-> index, lhs |-> lhs, rel |-> rel, rhs |-> rhs]

\* Constraint.Skip, and a pyomo Constraint: the rows its rule returned for
\* the indexes it did not skip
Skip == Row(<<>>, Const(0), "Skip", Const(0))

Constraint(rows) == rows \ {Skip}

\* the outcome of building a constraint: the exception raised ("" = none)
\* and the constraint
Built(rows) == [raised |-> "", rows |-> rows]
Raised(exception) == [raised |-> exception, rows |-> {}]

\* dict.get(key, default)
Get(dict, key, default) == IF key \in DOMAIN dict THEN dict[key] ELSE default

(***************************************************************************)
(* variables.py: a decision variable family is its index set and domain.   *)
(***************************************************************************)
None == [index |-> {}, domain |-> "None"]

Var(indexes, domain) == [index |-> ToSet(indexes), domain |-> domain]

ProductionVariable(indexes) == Var(indexes, "NonNegativeReals")
FilledDemand(indexes) == Var(indexes, "NonNegativeReals")
InventoryVariable(indexes) == Var(indexes, "NonNegativeReals")
PurchasedQtyVariable(indexes) == Var(indexes, "NonNegativeReals")
\* not in variables.py: the binary indicator of section 3 of the specification
EquipmentStatusVariable(indexes) == Var(indexes, "Binary")

(***************************************************************************)
(* preprocessing.py and bills_of_materials.py.  bom_data is the list of    *)
(* BOM rows [formula, manufactured_good, component, material_to_quantity]. *)
(***************************************************************************)
unify_columns_into_tuple(bom_data) ==
    [i \in DOMAIN bom_data |->
        <<bom_data[i].formula, bom_data[i].manufactured_good,
          bom_data[i].component>>]

\* a dict key -> value when the keys are distinct, key -> list of the values
\* of the key otherwise
create_mapping_dictionary_from_two_columns(keys, values) ==
    IF \E i, j \in DOMAIN keys : i # j /\ keys[i] = keys[j]
    THEN [k \in ToSet(keys) |->
            LET at == SelectSeq([i \in DOMAIN keys |-> i],
                                LAMBDA i : keys[i] = k)
            IN [list |-> TRUE, value |-> [j \in DOMAIN at |-> values[at[j]]]]]
    ELSE [k \in ToSet(keys) |->
            [list |-> FALSE,
             value |-> values[CHOOSE i \in DOMAIN keys : keys[i] = k]]]

Bom(bom_data) ==
    [_bom_data |-> bom_data,
     _bom_raw |-> create_mapping_dictionary_from_two_columns(
                      unify_columns_into_tuple(bom_data),
                      [i \in DOMAIN bom_data |->
                          bom_data[i].material_to_quantity])]

all_parent_materials(bom) ==
    unique([i \in DOMAIN bom._bom_data |-> bom._bom_data[i].manufactured_good])

\* mutant: the materials that are also a parent left out
all_component_materials_never_parent(bom) ==
    SelectSeq(unique([i \in DOMAIN bom._bom_data |-> bom._bom_data[i].component]),
              LAMBDA m : \A i \in DOMAIN bom._bom_data :
                             bom._bom_data[i].manufactured_good # m)

all_component_materials(bom) ==
    unique([i \in DOMAIN bom._bom_data |-> bom._bom_data[i].component])

\* mutant: a triple that is not a row counted as one unit
get_required_quantity_or_one(bom, formula, parent_material, children_material) ==
    Get(bom._bom_raw, <<formula, parent_material, children_material>>,
        [list |-> FALSE, value |-> 1])

get_required_quantity(bom, formula, parent_material, children_material) ==
    Get(bom._bom_raw, <<formula, parent_material, children_material>>,
        [list |-> FALSE, value |-> 0])

(***************************************************************************)
(* constraints_builders/base_constraint.py                                 *)
(***************************************************************************)
BaseConstraint(ms, first, last) ==
    [materials |-> ms, t0 |-> first, tmax |-> last,
     all_materials_all_time_indexes |->
         build_material_time_indexes(ms, first, last),
     all_materials_t0_index |-> build_material_time_indexes(ms, first, first)]

(***************************************************************************)
(* constraints_builders/inventory_constraints.py                           *)
(* Constraint(self.materials, initial_inventory, rule=rule) is indexed by  *)
(* the pairs (material, key of the mapping), and the rule's third          *)
(* parameter, which receives the key, hides the mapping of the same name:  *)
(* mapping[material] in the rule subscripts a material identifier, which   *)
(* raises TypeError at the first index.                                    *)
(***************************************************************************)
set_initial_inventory(self, initial_inventory_map) ==
    LET indexes == ToSet(self.materials) \X (DOMAIN initial_inventory_map)
    IN IF indexes = {} THEN Built(Constraint({})) ELSE Raised("TypeError")

inventory_tmax_goe_than_safety_stock_builder(self, safety_stock_map) ==
    LET indexes == ToSet(self.materials) \X (DOMAIN safety_stock_map)
    IN IF indexes = {} THEN Built(Constraint({})) ELSE Raised("TypeError")

(***************************************************************************)
(* constraints_builders/production_constraints.py                          *)
(***************************************************************************)
ProductionConstraintsBuilder(ms, first, last, es, fs, batch) ==
    [materials |-> ms, t0 |-> first, tmax |-> last,
     all_equipment |-> es, formulas |-> fs,
     minimum_units_in_batch |-> batch,
     material_equipment_formula_time_indexes |->
         build_material_equipment_formula_time_indexes(ms, es, fs, first, last),
     equipment_formula_time_indexes |->
         build_equipment_formula_time_indexes(es, fs, first, last),
     equipment_time_indexes |-> build_equipment_time_indexes(es, first, last)]

\* mutant: the bounds of the working window taken as closed hours
factory_is_closed_at_the_bounds(time) ==
    LET hour_from_day == time % HoursInDay
    IN hour_from_day <= OpeningHour \/ hour_from_day >= ClosingHour

factory_is_closed(time) ==
    LET hour_from_day == time % HoursInDay
    IN hour_from_day < OpeningHour \/ hour_from_day > ClosingHour

no_production_when_factory_is_closed(self) ==
    LET rule(i) ==
            IF factory_is_closed(i[4])
            THEN Row(i, Term(1, Ref("production", i)), "==", Const(0))
            ELSE Skip
    IN Constraint({rule(i) :
                     i \in ToSet(self.material_equipment_formula_time_indexes)})

\* mutant: the test of the classification inverted
components_cannot_be_produced_inverted(self, component_materials) ==
    LET rule(i) ==
            IF i[1] \notin component_materials
            THEN Row(i, Term(1, Ref("production", i)), "==", Const(0))
            ELSE Skip
    IN Constraint({rule(i) :
                     i \in ToSet(self.material_equipment_formula_time_indexes)})

components_cannot_be_produced_builder(self, component_materials) ==
    LET rule(i) ==
            IF i[1] \in component_materials
            THEN Row(i, Term(1, Ref("production", i)), "==", Const(0))
            ELSE Skip
    IN Constraint({rule(i) :
                     i \in ToSet(self.material_equipment_formula_time_indexes)})

\* mutant: the production counted in batches, not in units
production_doesnt_exceed_capacity_in_batches(self, max_capacity) ==
    LET rule(i) ==
            Row(i,
                sum([k \in DOMAIN self.materials |->
                      Term(1, Ref("production",
                          build_single_material_equipment_formula_time_index(
                              self.materials[k], i[1], i[2], i[3])))]),
                "<=",
                Const(Get(max_capacity, <<i[1], i[2]>>, 0)))
    IN Constraint({rule(i) : i \in ToSet(self.equipment_formula_time_indexes)})

production_doesnt_exceed_capacity_builder(self, max_capacity) ==
    LET rule(i) ==
            Row(i,
                Times(self.minimum_units_in_batch,
                      sum([k \in DOMAIN self.materials |->
                            Term(1, Ref("production",
                                build_single_material_equipment_formula_time_index(
                                    self.materials[k], i[1], i[2], i[3])))])),
                "<=",
                Const(Get(max_capacity, <<i[1], i[2]>>, 0)))
    IN Constraint({rule(i) : i \in ToSet(self.equipment_formula_time_indexes)})

production_on_equipment_at_t(self, equipment, t) ==
    LET mf == Nested2(self.materials, self.formulas)
    IN sum([k \in DOMAIN mf |->
              Term(1, Ref("production",
                  build_single_material_equipment_formula_time_index(
                      mf[k][1], equipment, mf[k][2], t)))])

\* mutant: the inequality of equation A turned around
equipment_status_goe_than_production(self) ==
    LET rule(i) ==
            Row(i, Term(1, Ref("equipment_status", i)), ">=",
                production_on_equipment_at_t(self, i[1], i[2]))
    IN Constraint({rule(i) : i \in ToSet(self.equipment_time_indexes)})

equipment_status_loe_than_production_builder(self) ==
    LET rule(i) ==
            Row(i, Term(1, Ref("equipment_status", i)), "<=",
                production_on_equipment_at_t(self, i[1], i[2]))
    IN Constraint({rule(i) : i \in ToSet(self.equipment_time_indexes)})

\* mutant: the status multiplied by 1, not by the large constant
equipment_status_is_active_when_producing_unit(self) ==
    LET rule(i) ==
            Row(i, production_on_equipment_at_t(self, i[1], i[2]), "<=",
                Times(1, Term(1, Ref("equipment_status", i))))
    IN Constraint({rule(i) : i \in ToSet(self.equipment_time_indexes)})

equipment_status_is_active_when_producing_builder(self) ==
    LET rule(i) ==
            Row(i, production_on_equipment_at_t(self, i[1], i[2]), "<=",
                Times(BIG_M, Term(1, Ref("equipment_status", i))))
    IN Constraint({rule(i) : i \in ToSet(self.equipment_time_indexes)})

max_continuous_production_time_limit_builder(self, max_continuous_time) ==
    LET rule(i) ==
            IF i[2] < self.tmax - max_continuous_time
            THEN LET ts == range(i[2], i[2] + max_continuous_time + 1)
                 IN Row(i,
                        sum([k \in DOMAIN ts |->
                              Term(1, Ref("equipment_status", <<i[1], ts[k]>>))]),
                        "<=", Const(max_continuous_time))
            ELSE Skip
    IN Constraint({rule(i) : i \in ToSet(self.equipment_time_indexes)})

(***************************************************************************)
(* constraints_builders/flow_constraints.py                                *)
(***************************************************************************)
FlowConstraintsBuilder(ms, first, last, es, fs, bom) ==
    [materials |-> ms, t0 |-> first, tmax |-> last,
     all_equipment |-> es, formulas |-> fs, bom |-> bom,
     all_materials_all_time_indexes |->
         build_material_time_indexes(ms, first, last)]

\* the exception the rule raises at index i ("" = none): model.production
\* has no index of a parent material outside the material list (KeyError),
\* and a list cannot multiply a variable (TypeError)
material_flow_balance_raises(self, model, i) ==
    LET pfe == Nested3(all_parent_materials(self.bom), self.formulas,
                       self.all_equipment)
        missing(p) ==
            build_single_material_equipment_formula_time_index(
                p[1], p[3], p[2], i[2]) \notin model.production.index
        bad == SelectSeq(pfe, LAMBDA p :
                   \/ missing(p)
                   \/ get_required_quantity(self.bom, p[2], p[1], i[1]).list)
    IN IF i[2] = self.tmax \/ bad = <<>> THEN ""
       ELSE IF missing(bad[1]) THEN "KeyError" ELSE "TypeError"

\* mutant: the consumption by the parents counted in batches, not in units
parent_production_ti_in_batches(self, minimum_units_in_batch_arg, material, t) ==
    LET pfe == Nested3(all_parent_materials(self.bom), self.formulas,
                       self.all_equipment)
    IN sum([k \in DOMAIN pfe |->
              Term(get_required_quantity(self.bom, pfe[k][2],
                                         pfe[k][1], material).value,
                   Ref("production",
                       build_single_material_equipment_formula_time_index(
                           pfe[k][1], pfe[k][3], pfe[k][2], t)))])

parent_production_ti(self, minimum_units_in_batch_arg, material, t) ==
    LET pfe == Nested3(all_parent_materials(self.bom), self.formulas,
                       self.all_equipment)
    IN Times(minimum_units_in_batch_arg,
             sum([k \in DOMAIN pfe |->
                   Term(get_required_quantity(self.bom, pfe[k][2],
                                              pfe[k][1], material).value,
                        Ref("production",
                            build_single_material_equipment_formula_time_index(
                                pfe[k][1], pfe[k][3], pfe[k][2], t)))]))

material_flow_balance_rule(self, minimum_units_in_batch_arg, i) ==
    IF i[2] = self.tmax THEN Skip
    ELSE
    LET material == i[1]
        t == i[2]
        ef == Nested2(self.all_equipment, self.formulas)
        inventory_quantity_tip1 ==
            Term(1, Ref("inventory_quantity", <<material, t + 1>>))
        inventory_quantity_ti == Term(1, Ref("inventory_quantity", i))
        production_ti ==
            Times(minimum_units_in_batch_arg,
                  sum([k \in DOMAIN ef |->
                        Term(1, Ref("production",
                            build_single_material_equipment_formula_time_index(
                                material, ef[k][1], ef[k][2], t)))]))
        filled_demand_ti == Term(1, Ref("filled_demand", i))
        purchased_quantity_ti == Term(1, Ref("purchased_quantity", i))
    IN Row(i, inventory_quantity_tip1, "==",
           Minus(Minus(Plus(Plus(inventory_quantity_ti, purchased_quantity_ti),
                            production_ti),
                       parent_production_ti(self, minimum_units_in_batch_arg,
                                            material, t)),
                 filled_demand_ti))

material_flow_balance_builder(self, model, minimum_units_in_batch_arg) ==
    LET raising == SelectSeq(self.all_materials_all_time_indexes,
                       LAMBDA i : material_flow_balance_raises(self, model, i) # "")
    IN IF raising # <<>>
       THEN Raised(material_flow_balance_raises(self, model, raising[1]))
       ELSE Built(Constraint(
                {material_flow_balance_rule(self, minimum_units_in_batch_arg, i) :
                    i \in ToSet(self.all_materials_all_time_indexes)}))

(***************************************************************************)
(* constraints_builders/demand_constraints.py                              *)
(***************************************************************************)
DemandConstraintsBuilder(ms, first, last, demand) ==
    [materials |-> ms, t0 |-> first, tmax |-> last, demand |-> demand,
     all_materials_all_time_indexes |->
         build_material_time_indexes(ms, first, last)]

\* mutant: the hour of the day not taken modulo 24
demand_is_filled_only_at_concrete_time(self, filling_time) ==
    LET rule(i) ==
            IF i[2] # filling_time
            THEN Row(i, Term(1, Ref("filled_demand", i)), "==", Const(0))
            ELSE Skip
    IN Constraint({rule(i) : i \in ToSet(self.all_materials_all_time_indexes)})

demand_is_filled_only_at_concrete_time_in_a_day(self, filling_time) ==
    LET rule(i) ==
            IF i[2] % HoursInDay # filling_time
            THEN Row(i, Term(1, Ref("filled_demand", i)), "==", Const(0))
            ELSE Skip
    IN Constraint({rule(i) : i \in ToSet(self.all_materials_all_time_indexes)})

\* mutant: the booked demand has to be filled
filled_demand_equals_demand(self) ==
    LET rule(i) ==
            Row(i, Term(1, Ref("filled_demand", i)), "==",
                Const(Get(self.demand, i, 0)))
    IN Constraint({rule(i) : i \in ToSet(self.all_materials_all_time_indexes)})

filled_demand_loe_than_demand_builder(self) ==
    LET rule(i) ==
            Row(i, Term(1, Ref("filled_demand", i)), "<=",
                Const(Get(self.demand, i, 0)))
    IN Constraint({rule(i) : i \in ToSet(self.all_materials_all_time_indexes)})

(***************************************************************************)
(* constraints_builders/purchasing_consrtaints.py                          *)
(***************************************************************************)
only_components_can_be_purchased_builder(self, parent_materials) ==
    LET rule(i) ==
            IF i[1] \in parent_materials
            THEN Row(i, Term(1, Ref("purchased_quantity", i)), "==", Const(0))
            ELSE Skip
    IN Constraint({rule(i) : i \in ToSet(self.all_materials_all_time_indexes)})

no_purchasing_when_factory_is_closed_builder(self) ==
    LET rule(i) ==
            IF factory_is_closed(i[2])
            THEN Row(i, Term(1, Ref("purchased_quantity", i)), "==", Const(0))
            ELSE Skip
    IN Constraint({rule(i) : i \in ToSet(self.all_materials_all_time_indexes)})

(***************************************************************************)
(* Inputs of a run: the constructor's and build_model's arguments.         *)
(***************************************************************************)
MaterialLists == {<<"A">>, <<"A", "B">>}
EquipmentLists == {<<"E1">>, <<"E1", "E2">>}
FormulaLists == {<<"F1">>, <<"F1", "F2">>}
BatchSizes == {1, 10}
StartTimes == {0, 8}
EndTimes == {12, MaxTime}

EmptyDict == [k \in {} |-> 0]
InitialInventories == {EmptyDict, ("A" :> 100) @@ ("B" :> 50)}
SafetyStocks == {EmptyDict, ("A" :> 0) @@ ("B" :> 5)}
MaxCapacities == {EmptyDict, (<<"E1", "F1">> :> 0) @@ (<<"E2", "F1">> :> 30)}
Demands == {EmptyDict, (<<"A", 8>> :> 5) @@ (<<"B", 9>> :> 3)}

\* a demand table with a negative quantity (the table is read as it is)
NegativeDemand == <<"A", 8>> :> -5

\* the named tuple of create_costs, and the selling prices
Costs(inventory_costs_dict, purchase_costs_dict, production_costs_dict) ==
    [inventory |-> inventory_costs_dict, purchase |-> purchase_costs_dict,
     production |-> production_costs_dict]

\* build_model's costs and selling_prices: nothing priced; a price for A
\* only and costs for B and for the pair (E1, F1) only; or a negative
\* inventory cost for A (the cost tables are read as they are)
ObjectiveArgs ==
    {[costs |-> Costs(EmptyDict, EmptyDict, EmptyDict),
      selling_prices |-> EmptyDict],
     [costs |-> Costs(("B" :> 1), ("B" :> 4), (<<"E1", "F1">> :> 3)),
      selling_prices |-> ("A" :> 20)],
     [costs |-> Costs(("A" :> -1), EmptyDict, EmptyDict),
      selling_prices |-> EmptyDict]}

BomRow(formula, parent, child, proportion) ==
    [formula |-> formula, manufactured_good |-> parent, component |-> child,
     material_to_quantity |-> proportion]

BomDatas ==
    {<<>>,
     <<BomRow("F1", "A", "B", 2), BomRow("F2", "A", "C", 3)>>,
     <<BomRow("F1", "A", "B", 2), BomRow("F1", "B", "C", 1)>>,
     <<BomRow("F1", "C", "A", 1)>>}

(***************************************************************************)
(* optimizers/manufacturing_optimizer.py                                   *)
(***************************************************************************)
\* the attributes __init__ leaves at None, and the variables before a
\* solution is loaded
NoObjectiveArgs ==
    [costs |-> Costs(EmptyDict, EmptyDict, EmptyDict),
     selling_prices |-> EmptyDict]
NoObjective == [expr |-> Const(0), sense |-> "None"]
NoPlan == [buy |-> 0, make |-> 0, fill |-> 0, stock |-> 0, day |-> 0]
NoSolution == [loaded |-> FALSE, plan |-> NoPlan]
NoResults == [name \in {} |-> <<>>]

\* an index list of the constructor is used when it is given and not empty
all_materials_all_time_indexes ==
    IF index_args.all_materials_all_time_indexes # <<>>
    THEN index_args.all_materials_all_time_indexes
    ELSE build_material_time_indexes(materials, t0, tmax)
all_materials_t0_index ==
    IF index_args.all_materials_t0_index # <<>>
    THEN index_args.all_materials_t0_index
    ELSE build_material_time_indexes(materials, t0, t0)
material_equipment_formula_time_indexes ==
    IF index_args.material_equipment_formula_time_indexes # <<>>
    THEN index_args.material_equipment_formula_time_indexes
    ELSE build_material_equipment_formula_time_indexes(
             materials, all_equipment, formulas, t0, tmax)
equipment_time_indexes ==
    IF index_args.equipment_time_indexes # <<>>
    THEN index_args.equipment_time_indexes
    ELSE build_equipment_time_indexes(all_equipment, t0, tmax)

\* the constructor's index lists: not passed, or the lists a caller built
\* with the index builders for one period more than simulation_duration
NoIndexLists ==
    [all_materials_all_time_indexes |-> <<>>,
     all_materials_t0_index |-> <<>>,
     material_equipment_formula_time_indexes |-> <<>>,
     equipment_time_indexes |-> <<>>]

IndexListsUpTo(ms, es, fs, first, last) ==
    [all_materials_all_time_indexes |->
         build_material_time_indexes(ms, first, last),
     all_materials_t0_index |-> build_material_time_indexes(ms, first, first),
     material_equipment_formula_time_indexes |->
         build_material_equipment_formula_time_indexes(ms, es, fs, first, last),
     equipment_time_indexes |-> build_equipment_time_indexes(es, first, last)]

\* the arguments a caller may choose from: for each argument of the
\* constructor and of build_model the values explored; pass_indexes: the
\* caller may pass the index lists
Inputs ==
    [pass_indexes |-> FALSE,
     materials |-> MaterialLists,
     all_equipment |-> EquipmentLists,
     formulas |-> FormulaLists,
     minimum_units_in_batch |-> BatchSizes,
     t0 |-> StartTimes,
     tmax |-> EndTimes,
     initial_inventory |-> InitialInventories,
     safety_stock |-> SafetyStocks,
     max_capacity |-> MaxCapacities,
     demand |-> Demands,
     bom_data |-> BomDatas]

\* ManufacturingOptimizer.__init__, and the arguments build_model is called
\* with
__init__(inputs) ==
    /\ error = ""
    /\ built = {}
    /\ materials \in inputs.materials
    /\ all_equipment \in inputs.all_equipment
    /\ formulas \in inputs.formulas
    /\ minimum_units_in_batch \in inputs.minimum_units_in_batch
    /\ t0 \in inputs.t0
    /\ tmax \in inputs.tmax
    /\ index_args \in
          {NoIndexLists}
          \cup (IF inputs.pass_indexes
                THEN {IndexListsUpTo(materials, all_equipment, formulas,
                                     t0, tmax + 1)}
                ELSE {})
    /\ build_args \in [initial_inventory : inputs.initial_inventory,
                        safety_stock : inputs.safety_stock,
                        max_capacity : inputs.max_capacity,
                        demand : inputs.demand,
                        bom : {Bom(d) : d \in inputs.bom_data}]
    /\ production = None
    /\ filled_demand = None
    /\ inventory_quantity = None
    /\ purchased_quantity = None
    /\ equipment_status = None
    /\ initial_inventory = {}
    /\ inventory_tmax_goe_than_safety_stock = {}
    /\ no_production_at_t0 = {}
    /\ components_cannot_be_produced = {}
    /\ production_doesnt_exceed_capacity = {}
    /\ equipment_status_is_active_when_producing = {}
    /\ equipment_status_loe_than_production = {}
    /\ max_continuous_production_time_limit = {}
    /\ material_flow_balance = {}
    /\ no_filled_demand_at_t0 = {}
    /\ filled_demand_loe_than_demand = {}
    /\ only_components_can_be_purchased = {}
    /\ no_purchasing_when_factory_is_closed = {}
    /\ objective_args = NoObjectiveArgs
    /\ objective = NoObjective
    /\ solver_calls = 0
    /\ termination_condition = ""
    /\ solution = NoSolution
    /\ results = NoResults
    /\ reports = NoResults

ManufacturingOptimizer(inputs) ==
    /\ pc = "constructed"
    /\ __init__(inputs)

Init == ManufacturingOptimizer(Inputs)

_create_variables ==
    /\ pc = "constructed"
    /\ production' = ProductionVariable(material_equipment_formula_time_indexes)
    /\ filled_demand' = FilledDemand(all_materials_all_time_indexes)
    /\ inventory_quantity' = InventoryVariable(all_materials_all_time_indexes)
    /\ purchased_quantity' = PurchasedQtyVariable(all_materials_all_time_indexes)
    /\ equipment_status' = EquipmentStatusVariable(equipment_time_indexes)
    /\ built' = built \cup {"production", "filled_demand", "inventory_quantity",
                             "purchased_quantity", "equipment_status"}
    /\ pc' = "variables"
    /\ UNCHANGED <<error, ctor_vars, tail_vars, inventory_vars, production_vars,
                   flow_vars, demand_vars, purchasing_vars>>

_create_inventory_constraints ==
    /\ pc = "variables"
    /\ LET inventory_constraints_builder == BaseConstraint(materials, t0, tmax)
           first == set_initial_inventory(inventory_constraints_builder,
                                          build_args.initial_inventory)
           second == inventory_tmax_goe_than_safety_stock_builder(
                         inventory_constraints_builder, build_args.safety_stock)
       IN IF first.raised # ""
          THEN /\ error' = first.raised
               /\ pc' = "error"
               /\ UNCHANGED <<built, inventory_vars>>
          ELSE IF second.raised # ""
          THEN /\ initial_inventory' = first.rows
               /\ built' = built \cup {"initial_inventory"}
               /\ error' = second.raised
               /\ pc' = "error"
               /\ UNCHANGED inventory_tmax_goe_than_safety_stock
          ELSE /\ initial_inventory' = first.rows
               /\ inventory_tmax_goe_than_safety_stock' = second.rows
               /\ built' = built \cup {"initial_inventory",
                                        "inventory_tmax_goe_than_safety_stock"}
               /\ pc' = "inventory"
               /\ UNCHANGED error
    /\ UNCHANGED <<ctor_vars, tail_vars, var_vars, production_vars, flow_vars,
                   demand_vars, purchasing_vars>>

_create_production_constraints ==
    /\ pc = "inventory"
    /\ LET component_materials == ToSet(all_component_materials(build_args.bom))
           production_constraints_builder ==
               ProductionConstraintsBuilder(materials, t0, tmax, all_equipment,
                                            formulas, minimum_units_in_batch)
       IN /\ no_production_at_t0' =
                 no_production_when_factory_is_closed(
                     production_constraints_builder)
          /\ components_cannot_be_produced' =
                 components_cannot_be_produced_builder(
                     production_constraints_builder, component_materials)
          /\ production_doesnt_exceed_capacity' =
                 production_doesnt_exceed_capacity_builder(
                     production_constraints_builder, build_args.max_capacity)
          /\ equipment_status_is_active_when_producing' =
                 equipment_status_is_active_when_producing_builder(
                     production_constraints_builder)
          /\ equipment_status_loe_than_production' =
                 equipment_status_loe_than_production_builder(
                     production_constraints_builder)
          /\ max_continuous_production_time_limit' =
                 max_continuous_production_time_limit_builder(
                     production_constraints_builder,
                     max_equipment_production_continuous_time)
    /\ built' = built \cup {"no_production_at_t0",
                             "components_cannot_be_produced",
                             "production_doesnt_exceed_capacity",
                             "equipment_status_is_active_when_producing",
                             "equipment_status_loe_than_production",
                             "max_continuous_production_time_limit"}
    /\ pc' = "production"
    /\ UNCHANGED <<error, ctor_vars, tail_vars, var_vars, inventory_vars, flow_vars,
                   demand_vars, purchasing_vars>>

_create_material_flow_balance_constraints ==
    /\ pc = "production"
    /\ LET flow_constraints_builder ==
               FlowConstraintsBuilder(materials, t0, tmax, all_equipment,
                                      formulas, build_args.bom)
           result == material_flow_balance_builder(
                         flow_constraints_builder,
                         [production |-> production],
                         minimum_units_in_batch)
       IN IF result.raised # ""
          THEN /\ error' = result.raised
               /\ pc' = "error"
               /\ UNCHANGED <<built, material_flow_balance>>
          ELSE /\ material_flow_balance' = result.rows
               /\ built' = built \cup {"material_flow_balance"}
               /\ pc' = "flow"
               /\ UNCHANGED error
    /\ UNCHANGED <<ctor_vars, tail_vars, var_vars, inventory_vars, production_vars,
                   demand_vars, purchasing_vars>>

\* mutant: the demand constraints created before the flow balance
_create_demand_constraints_before_flow ==
    /\ pc = "production"
    /\ LET demand_constraints_builder ==
               DemandConstraintsBuilder(materials, t0, tmax, build_args.demand)
       IN /\ no_filled_demand_at_t0' =
                 demand_is_filled_only_at_concrete_time_in_a_day(
                     demand_constraints_builder, demand_filling_time)
          /\ filled_demand_loe_than_demand' =
                 filled_demand_loe_than_demand_builder(
                     demand_constraints_builder)
    /\ built' = built \cup {"no_filled_demand_at_t0",
                             "filled_demand_loe_than_demand"}
    /\ pc' = "demand"
    /\ UNCHANGED <<error, ctor_vars, tail_vars, var_vars, inventory_vars, production_vars,
                   flow_vars, purchasing_vars>>

_create_demand_constraints ==
    /\ pc = "flow"
    /\ LET demand_constraints_builder ==
               DemandConstraintsBuilder(materials, t0, tmax, build_args.demand)
       IN /\ no_filled_demand_at_t0' =
                 demand_is_filled_only_at_concrete_time_in_a_day(
                     demand_constraints_builder, demand_filling_time)
          /\ filled_demand_loe_than_demand' =
                 filled_demand_loe_than_demand_builder(
                     demand_constraints_builder)
    /\ built' = built \cup {"no_filled_demand_at_t0",
                             "filled_demand_loe_than_demand"}
    /\ pc' = "demand"
    /\ UNCHANGED <<error, ctor_vars, tail_vars, var_vars, inventory_vars, production_vars,
                   flow_vars, purchasing_vars>>

_create_purchasing_constraints ==
    /\ pc = "demand"
    /\ LET parent_materials == ToSet(all_parent_materials(build_args.bom))
           purchasing_constraints_builder == BaseConstraint(materials, t0, tmax)
       IN /\ only_components_can_be_purchased' =
                 only_components_can_be_purchased_builder(
                     purchasing_constraints_builder, parent_materials)
          /\ no_purchasing_when_factory_is_closed' =
                 no_purchasing_when_factory_is_closed_builder(
                     purchasing_constraints_builder)
    /\ built' = built \cup {"only_components_can_be_purchased",
                             "no_purchasing_when_factory_is_closed"}
    /\ pc' = "purchasing"
    /\ UNCHANGED <<error, ctor_vars, tail_vars, var_vars, inventory_vars, production_vars,
                   flow_vars, demand_vars>>

Objective(expr, sense) == [expr |-> expr, sense |-> sense]

\* mutant: the production cost charged per batch, not per unit
get_objective_function_expression_per_batch(costs, selling_prices) ==
    LET fe == Nested2(formulas, all_equipment)
        net(i) ==
            Minus(Minus(Minus(
                Term(Get(selling_prices, i[1], 0), Ref("filled_demand", i)),
                Term(Get(costs.inventory, i[1], 0),
                     Ref("inventory_quantity", i))),
                Term(Get(costs.purchase, i[1], 0),
                     Ref("purchased_quantity", i))),
                sum([k \in DOMAIN fe |->
                       Term(Get(costs.production, <<fe[k][2], fe[k][1]>>, 0),
                            Ref("production",
                                build_single_material_equipment_formula_time_index(
                                    i[1], fe[k][2], fe[k][1], i[2])))]))
    IN sum([k \in DOMAIN all_materials_all_time_indexes |->
               net(all_materials_all_time_indexes[k])])

get_objective_function_expression(costs, selling_prices) ==
    LET fe == Nested2(formulas, all_equipment)
        net(i) ==
            Minus(Minus(Minus(
                Term(Get(selling_prices, i[1], 0), Ref("filled_demand", i)),
                Term(Get(costs.inventory, i[1], 0),
                     Ref("inventory_quantity", i))),
                Term(Get(costs.purchase, i[1], 0),
                     Ref("purchased_quantity", i))),
                Times(minimum_units_in_batch,
                      sum([k \in DOMAIN fe |->
                            Term(Get(costs.production, <<fe[k][2], fe[k][1]>>, 0),
                                 Ref("production",
                                     build_single_material_equipment_formula_time_index(
                                         i[1], fe[k][2], fe[k][1], i[2])))])))
    IN sum([k \in DOMAIN all_materials_all_time_indexes |->
               net(all_materials_all_time_indexes[k])])

_build_objective_function ==
    /\ pc = "purchasing"
    /\ \E args \in ObjectiveArgs :
          /\ objective_args' = args
          /\ objective' = Objective(
                 get_objective_function_expression(args.costs,
                                                   args.selling_prices),
                 "maximize")
    /\ built' = built \cup {"objective"}
    /\ pc' = "objective"
    /\ UNCHANGED <<error, ctor_vars, var_vars, inventory_vars, production_vars,
                   flow_vars, demand_vars, purchasing_vars, solve_vars, reports>>

(***************************************************************************)
(* The value of a row under an assignment of numbers to variable           *)
(* references (0 for the references it does not name).                     *)
(***************************************************************************)
RECURSIVE SumOver(_, _)
SumOver(S, f) ==
    IF S = {} THEN 0
    ELSE LET x == CHOOSE y \in S : TRUE IN f[x] + SumOver(S \ {x}, f)

Eval(expr, val) ==
    SumOver(DOMAIN expr.terms,
            [v \in DOMAIN expr.terms |-> expr.terms[v] * Get(val, v, 0)])
    + expr.const

Holds(row, val) ==
    CASE row.rel = "==" -> Eval(row.lhs, val) = Eval(row.rhs, val)
      [] row.rel = "<=" -> Eval(row.lhs, val) <= Eval(row.rhs, val)
      [] row.rel = ">=" -> Eval(row.lhs, val) >= Eval(row.rhs, val)

(***************************************************************************)
(* The external solver.  It answers with a termination condition and, when *)
(* it has a plan, loads the plan's values into the variables; or the       *)
(* invocation itself raises.  The plans explored, on the first day or the  *)
(* day after: keep a stock of material A from the first hour on, buy units *)
(* of A at hour 8 of the day, fill demand of A at hour 8 of the day, make  *)
(* batches of A on equipment E2 with formula F1 at hour 9 of the day;      *)
(* every other value is 0.                                                 *)
(***************************************************************************)
Plan(buy, make, fill, stock, day) ==
    [buy |-> buy, make |-> make, fill |-> fill, stock |-> stock, day |-> day]

Plans ==
    {Plan(0, 0, 0, 0, 0), Plan(5, 0, 0, 0, 0), Plan(5, 0, 5, 0, 0),
     Plan(0, 1, 0, 0, 0), Plan(0, 0, 5, 5, 0),
     Plan(5, 0, 5, 0, 1), Plan(0, 0, 5, 5, 1), Plan(0, 0, 5, 0, 1)}

\* the hour of the plan's day at the hour of a day
HourOf(plan, hour) == plan.day * HoursInDay + hour

PlanValue(plan, ref) ==
    LET opening == HourOf(plan, OpeningHour)
    IN IF ref = Ref("purchased_quantity", <<"A", opening>>) THEN plan.buy
       ELSE IF ref = Ref("filled_demand", <<"A", opening>>) THEN plan.fill
       ELSE IF ref = Ref("production", <<"A", "E2", "F1", opening + 1>>)
       THEN plan.make
       ELSE IF ref = Ref("equipment_status", <<"E2", opening + 1>>)
       THEN plan.make
       ELSE IF ref[1] = "inventory_quantity" /\ ref[2][1] = "A"
       THEN plan.stock
            + (IF ref[2][2] > opening THEN plan.buy - plan.fill ELSE 0)
            + (IF ref[2][2] > opening + 1
               THEN plan.make * minimum_units_in_batch ELSE 0)
       ELSE 0

\* the references a plan may give a value other than 0
PlanRefs ==
    UNION {{Ref("purchased_quantity", <<"A", HourOf(plan, OpeningHour)>>),
            Ref("filled_demand", <<"A", HourOf(plan, OpeningHour)>>),
            Ref("production", <<"A", "E2", "F1", HourOf(plan, OpeningHour) + 1>>),
            Ref("equipment_status", <<"E2", HourOf(plan, OpeningHour) + 1>>)} :
              plan \in Plans}
    \cup {Ref("inventory_quantity", i) : i \in inventory_quantity.index}

\* the constraints of the built model
AllRows ==
    initial_inventory \cup inventory_tmax_goe_than_safety_stock
    \cup no_production_at_t0 \cup components_cannot_be_produced
    \cup production_doesnt_exceed_capacity
    \cup equipment_status_is_active_when_producing
    \cup equipment_status_loe_than_production
    \cup max_continuous_production_time_limit
    \cup material_flow_balance
    \cup no_filled_demand_at_t0 \cup filled_demand_loe_than_demand
    \cup only_components_can_be_purchased
    \cup no_purchasing_when_factory_is_closed

VarIndex(family) ==
    CASE family = "production" -> production.index
      [] family = "filled_demand" -> filled_demand.index
      [] family = "inventory_quantity" -> inventory_quantity.index
      [] family = "purchased_quantity" -> purchased_quantity.index
      [] family = "equipment_status" -> equipment_status.index

\* the plan gives values to variables of the model only, none negative, and
\* satisfies every constraint of the built model
IsFeasiblePlan(plan) ==
    LET used == {v \in PlanRefs : PlanValue(plan, v) # 0}
        val == [v \in used |-> PlanValue(plan, v)]
    IN /\ \A v \in used : v[2] \in VarIndex(v[1]) /\ val[v] > 0
       /\ \A row \in AllRows : Holds(row, val)

\* the objective at the plan: its terms at the references the plan gives
\* a value other than 0
ObjectiveValue(plan) ==
    LET used == {v \in PlanRefs : PlanValue(plan, v) # 0}
    IN SumOver(used, [v \in used |->
                         Coef(objective.expr, v) * PlanValue(plan, v)])

\* a row no values of the non-negative variables satisfy
IsInfeasibleRow(row) ==
    /\ row.rel = "<="
    /\ DOMAIN row.rhs.terms = {}
    /\ \A v \in DOMAIN row.lhs.terms : row.lhs.terms[v] >= 0
    /\ row.lhs.const > row.rhs.const

IsInfeasibleModel == \E row \in AllRows : IsInfeasibleRow(row)

\* the references of the variables the row constrains
RowRefs(row) == DOMAIN row.lhs.terms \cup DOMAIN row.rhs.terms

\* a feasible model whose objective has no maximum: a variable that adds to
\* the objective is in no constraint; or the stock of a material is bounded
\* by no constraint (no row of the inventory step) and every hour of it
\* adds to the objective, so that raising the material's inventory at every
\* hour by the same amount keeps a plan feasible
IsUnboundedModel ==
    /\ \E plan \in Plans : IsFeasiblePlan(plan)
    /\ \/ \E v \in DOMAIN objective.expr.terms :
             /\ objective.expr.terms[v] > 0
             /\ \A row \in AllRows : v \notin RowRefs(row)
       \/ /\ initial_inventory = {}
          /\ inventory_tmax_goe_than_safety_stock = {}
          /\ \E m \in ToSet(materials) :
                \A i \in inventory_quantity.index :
                    i[1] = m =>
                        Coef(objective.expr, Ref("inventory_quantity", i)) > 0

\* the filled demand at the index is fixed to 0 or bounded by a demand row
IsBoundedFill(i) ==
    \E row \in no_filled_demand_at_t0 \cup filled_demand_loe_than_demand :
        row.index = i

\* the most the objective can be when only filled demand adds to it: each
\* filled quantity at the right-hand side of its demand row, or at 0 where
\* a row fixes it to 0
RevenueBound ==
    LET gain(i) ==
            LET coef == Coef(objective.expr, Ref("filled_demand", i))
                most ==
                    IF \E row \in no_filled_demand_at_t0 : row.index = i
                    THEN 0
                    ELSE Get(build_args.demand, i, 0)
            IN IF coef > 0 /\ most > 0 THEN coef * most ELSE 0
    IN SumOver(filled_demand.index, [i \in filled_demand.index |-> gain(i)])

\* a feasible plan that reaches the bound is optimal
OptimalPlans ==
    IF \E v \in DOMAIN objective.expr.terms :
           /\ objective.expr.terms[v] > 0
           /\ v[1] = "filled_demand" => ~IsBoundedFill(v[2])
    THEN {}
    ELSE {plan \in Plans :
             IsFeasiblePlan(plan) /\ ObjectiveValue(plan) = RevenueBound}

\* what an invocation may answer: [raises, termination_condition, loaded, plan]
SolverAnswer(raises, condition, loaded, plan) ==
    [raises |-> raises, termination_condition |-> condition,
     loaded |-> loaded, plan |-> plan]

\* the invocation raises (no solver at SOLVER_PATH), or the solver reports
\* what the model is: infeasible, unbounded, or solved to an optimal plan
SolverAnswers ==
    {SolverAnswer(TRUE, "", FALSE, NoPlan)}
    \cup (IF IsInfeasibleModel
          THEN {SolverAnswer(FALSE, "infeasible", FALSE, NoPlan)}
          ELSE IF IsUnboundedModel
          THEN {SolverAnswer(FALSE, "unbounded", FALSE, NoPlan)}
          ELSE {SolverAnswer(FALSE, "optimal", TRUE, plan) :
                   plan \in OptimalPlans})

(***************************************************************************)
(* optimizers/base_optimizer.py and generate_results.  A table is the list *)
(* of its rows, a row maps the column headers to the row's cells.          *)
(***************************************************************************)
\* the cell of a variable no solution was loaded into (None, NaN in a
\* table): not a number any variable takes, and NaN != 0
NaN == -1

extract_values(id, indexes, loaded) ==
    [k \in DOMAIN indexes |->
        IF loaded.loaded THEN PlanValue(loaded.plan, Ref(id, indexes[k]))
        ELSE NaN]

col_headers ==
    [production |-> <<"material", "equipment", "formula", "time", "batches">>,
     filled_demand |-> <<"material", "time", "quantity">>,
     inventory_quantity |-> <<"material", "time", "quantity">>,
     purchased_quantity |-> <<"material", "time", "quantity">>,
     equipment_status |-> <<"equipment", "time", "status">>]

\* Series(values, index=keys), reset_index, columns = headers
get_variable_results_on_dataframe_format(id, indexes, loaded, headers) ==
    LET values == extract_values(id, indexes, loaded)
        columns == headers[id]
        cells(k) == indexes[k] \o <<values[k]>>
    IN [k \in DOMAIN indexes |->
          [c \in ToSet(columns) |->
              cells(k)[CHOOSE n \in DOMAIN columns : columns[n] = c]]]

generate_results(loaded) ==
    LET model_variables ==
            [production |-> material_equipment_formula_time_indexes,
             filled_demand |-> all_materials_all_time_indexes,
             inventory_quantity |-> all_materials_all_time_indexes,
             purchased_quantity |-> all_materials_all_time_indexes,
             equipment_status |-> equipment_time_indexes]
    IN [id \in DOMAIN model_variables |->
          get_variable_results_on_dataframe_format(
              id, model_variables[id], loaded, col_headers)]

\* mutant: the check looks for another termination condition
is_unbounded(condition) == condition = "unbounded"

\* check_feasibility
is_infeasible(condition) == condition = "infeasible"

\* the body of solve(): one invocation of the solver, the feasibility
\* check, the extraction of the results
solve_body ==
    \E answer \in SolverAnswers :
        /\ solver_calls' = solver_calls + 1
        /\ IF answer.raises
           THEN /\ error' = "ApplicationError"
                /\ pc' = "error"
                /\ UNCHANGED <<termination_condition, solution, results>>
           ELSE LET loaded == IF answer.loaded
                              THEN [loaded |-> TRUE, plan |-> answer.plan]
                              ELSE solution
                IN /\ termination_condition' = answer.termination_condition
                   /\ solution' = loaded
                   /\ IF is_infeasible(answer.termination_condition)
                      THEN /\ error' = "SystemError"
                           /\ pc' = "error"
                           /\ UNCHANGED results
                      ELSE /\ results' = generate_results(loaded)
                           /\ pc' = "results"
                           /\ UNCHANGED error
        /\ UNCHANGED <<built, ctor_vars, var_vars, inventory_vars,
                       production_vars, flow_vars, demand_vars,
                       purchasing_vars, objective_vars, reports>>

\* optimizer.solve() of run_production_problem, after build_model
solve ==
    /\ pc = "objective"
    /\ solve_body

\* run_production_problem: the rows with a value of 0 are dropped from the
\* tables it writes
value_column(name) ==
    CASE name = "equipment_status" -> "status"
      [] name = "production" -> "batches"
      [] OTHER -> "quantity"

\* optimizer.objective() has no value when a variable of the objective has
\* none
objective_has_value ==
    \/ solution.loaded
    \/ \A v \in DOMAIN objective.expr.terms : objective.expr.terms[v] = 0

\* mutant: the tables are written as solve() returned them
write_reports_all_rows ==
    /\ pc = "results"
    /\ IF objective_has_value
       THEN /\ reports' =
                  [name \in DOMAIN results |-> results[name]]
            /\ pc' = "reported"
            /\ UNCHANGED error
       ELSE /\ error' = "ValueError"
            /\ pc' = "error"
            /\ UNCHANGED reports
    /\ UNCHANGED <<built, ctor_vars, var_vars, inventory_vars,
                   production_vars, flow_vars, demand_vars, purchasing_vars,
                   objective_vars, solve_vars>>

\* run_production_problem after solve(): the objective value is printed,
\* then the tables are written
write_reports ==
    /\ pc = "results"
    /\ IF objective_has_value
       THEN /\ reports' =
                  [name \in DOMAIN results |->
                      SelectSeq(results[name],
                                LAMBDA row : row[value_column(name)] # 0)]
            /\ pc' = "reported"
            /\ UNCHANGED error
       ELSE /\ error' = "ValueError"
            /\ pc' = "error"
            /\ UNCHANGED reports
    /\ UNCHANGED <<built, ctor_vars, var_vars, inventory_vars,
                   production_vars, flow_vars, demand_vars, purchasing_vars,
                   objective_vars, solve_vars>>

\* build_model: its calls, in the order it makes them
Next ==
    \/ _create_variables
    \/ _create_inventory_constraints
    \/ _create_production_constraints
    \/ _create_material_flow_balance_constraints
    \/ _create_demand_constraints
    \/ _create_purchasing_constraints
    \/ _build_objective_function

Spec == Init /\ [][Next]_vars

(***************************************************************************)
(* run_production_problem: build_model, solve, the reports, for the inputs *)
(* that get through the inventory step (no initial inventory and no safety *)
(* stock mapped) with one formula and batches of 10 units.                 *)
(***************************************************************************)
RunInputs ==
    [Inputs EXCEPT
        !.formulas = {<<"F1">>},
        !.minimum_units_in_batch = {10},
        !.initial_inventory = {EmptyDict},
        !.safety_stock = {EmptyDict},
        !.demand = Demands \cup {NegativeDemand},
        !.bom_data =
            {<<>>, <<BomRow("F1", "A", "B", 2), BomRow("F2", "A", "C", 3)>>}]

RunInit == ManufacturingOptimizer(RunInputs)

RunNext ==
    \/ Next
    \/ solve
    \/ write_reports

RunSpec == RunInit /\ [][RunNext]_vars

(***************************************************************************)
(* The orchestrator under a caller that makes its calls in any order:      *)
(* solve() before build_model, build_model, solve(), solve() again; the    *)
(* constructor is given its index lists or not.                            *)
(***************************************************************************)
MaxSolves == 2

\* solve() on an orchestrator build_model was not called on: the invocation
\* raises, or generate_results reads a variable family that is None
solve_unbuilt ==
    /\ pc = "constructed"
    /\ solver_calls < MaxSolves
    /\ solver_calls' = solver_calls + 1
    /\ error' \in {"ApplicationError", "ValueError", "AttributeError"}
    /\ pc' = "error"
    /\ UNCHANGED <<built, ctor_vars, var_vars, inventory_vars,
                   production_vars, flow_vars, demand_vars, purchasing_vars,
                   objective_vars, termination_condition, solution, results,
                   reports>>

\* solve() on an orchestrator solve() has returned from
solve_again ==
    /\ pc \in {"results", "reported"}
    /\ solver_calls < MaxSolves
    /\ solve_body

CallerInit == ManufacturingOptimizer([RunInputs EXCEPT !.pass_indexes = TRUE])

CallerNext ==
    \/ RunNext
    \/ solve_unbuilt
    \/ solve_again

CallerSpec == CallerInit /\ [][CallerNext]_vars

(***************************************************************************)
(* The scenarios of the end-to-end test: the orchestrator built and solved *)
(* for one material, one equipment and one formula, batches of 10 units,   *)
(* a horizon from hour 0 to hour 32, 44 or 48, and a demand of 5 units of  *)
(* the material at hour 32 or, where no demand is filled, at hour 33.      *)
(***************************************************************************)
ScenarioInputs ==
    [pass_indexes |-> FALSE,
     materials |-> {<<"A">>},
     all_equipment |-> {<<"E1">>},
     formulas |-> {<<"F1">>},
     minimum_units_in_batch |-> {10},
     t0 |-> {0},
     tmax |-> {32, 44, 48},
     initial_inventory |-> {EmptyDict, "A" :> 100},
     safety_stock |-> {EmptyDict, "A" :> 0},
     max_capacity |-> {EmptyDict, <<"E1", "F1">> :> 0, <<"E1", "F1">> :> 30},
     demand |-> {EmptyDict, <<"A", 32>> :> 5, <<"A", 33>> :> 5},
     bom_data |-> {<<>>,
                   <<BomRow("F1", "A", "B", 2), BomRow("F1", "A", "B", 3)>>}]

ScenarioInit == ManufacturingOptimizer(ScenarioInputs)

ScenarioSpec == ScenarioInit /\ [][RunNext]_vars

\* ---------------------------------------------------------------------
\* run_production_problem: the demand sheet names days; the function
\* turns every day into the filling hour of that day and derives the
\* horizon from the latest one before it constructs the optimizer.
\* ---------------------------------------------------------------------
MaxDay == 7

DemandSheets ==
    {<<"A", 1>> :> 5,
     <<"A", 2>> :> 5,
     (<<"A", 1>> :> 5) @@ (<<"A", 2>> :> 2),
     (<<"A", 2>> :> 5) @@ (<<"B", 1>> :> 3)}

period_to_time(period) == (period - 1) * 24 + 8

demand_period_max(sheet) ==
    CHOOSE p \in {k[2] : k \in DOMAIN sheet} :
        \A k \in DOMAIN sheet : k[2] <= p

simulation_duration_to_midnight(sheet) == ((demand_period_max(sheet) \div 24) + 1) * 24

simulation_duration(sheet) == ((demand_period_max(sheet) \div 24) + 1) * 24 - 4

demand_in_hours(sheet) ==
    [k \in {<<j[1], period_to_time(j[2])>> : j \in DOMAIN sheet} |->
        sheet[CHOOSE j \in DOMAIN sheet : <<j[1], period_to_time(j[2])>> = k]]

MainInputs ==
    [RunInputs EXCEPT !.t0 = {0}, !.tmax = {0}, !.demand = DemandSheets]

MainInit ==
    /\ pc = "read"
    /\ __init__(MainInputs)

run_production_problem ==
    /\ pc = "read"
    /\ LET hours == demand_in_hours(build_args.demand)
       IN  /\ build_args' = [build_args EXCEPT !.demand = hours]
           /\ tmax' = simulation_duration(hours)
    /\ pc' = "constructed"
    /\ UNCHANGED <<error, built, materials, all_equipment, formulas,
                   minimum_units_in_batch, t0, index_args, var_vars,
                   inventory_vars, production_vars, flow_vars, demand_vars,
                   purchasing_vars, tail_vars>>

MainNext ==
    \/ run_production_problem
    \/ RunNext

MainSpec == MainInit /\ [][MainNext]_vars

(***************************************************************************)
(* Shared vocabulary of the properties.                                    *)
(***************************************************************************)
ProductionIs0(i) == Row(i, Term(1, Ref("production", i)), "==", Const(0))
PurchasedIs0(i) == Row(i, Term(1, Ref("purchased_quantity", i)), "==", Const(0))
FilledIs0(i) == Row(i, Term(1, Ref("filled_demand", i)), "==", Const(0))
RowsAt(rows, i) == {r \in rows : r.index = i}
BomRows == ToSet(build_args.bom._bom_data)
IsParentOfSomeRow(m) == \E r \in BomRows : r.manufactured_good = m
IsChildOfSomeRow(m) == \E r \in BomRows : r.component = m
\* the proportion of the BOM row (f, parent, child), 0 when there is none
Proportion(f, parent, child) ==
    LET rows == {r \in BomRows : /\ r.formula = f
                                 /\ r.manufactured_good = parent
                                 /\ r.component = child}
    IN IF rows = {} THEN 0 ELSE (CHOOSE r \in rows : TRUE).material_to_quantity

(***************************************************************************)
(* C1: material_flow_balance holds, for every material m of the material   *)
(* list and every t0 <= t < tmax, exactly one equation                     *)
(*   inventory[m,t+1] = inventory[m,t] + purchased[m,t]                    *)
(*      + batch * SUM(e,f) production[m,e,f,t]                             *)
(*      - batch * SUM(parent,f,e) proportion(f,parent,m)                   *)
(*                                * production[parent,e,f,t]               *)
(*      - filled_demand[m,t]                                               *)
(* and no equation for t = tmax.                                           *)
(***************************************************************************)
C1_FlowCoef(m, t, ref) ==
    IF ref = Ref("inventory_quantity", <<m, t>>) THEN 1
    ELSE IF ref = Ref("purchased_quantity", <<m, t>>) THEN 1
    ELSE IF ref = Ref("filled_demand", <<m, t>>) THEN -1
    ELSE IF /\ ref[1] = "production"
            /\ ref[2][2] \in ToSet(all_equipment)
            /\ ref[2][3] \in ToSet(formulas)
            /\ ref[2][4] = t
         THEN (IF ref[2][1] = m THEN minimum_units_in_batch ELSE 0)
              - (IF IsParentOfSomeRow(ref[2][1])
                 THEN minimum_units_in_batch * Proportion(ref[2][3], ref[2][1], m)
                 ELSE 0)
    ELSE 0

C1_FlowRefs(m, t) ==
    {Ref("inventory_quantity", <<m, t>>), Ref("purchased_quantity", <<m, t>>),
     Ref("filled_demand", <<m, t>>)}
    \cup {Ref("production", <<x, e, f, t>>) :
            x \in ToSet(materials), e \in ToSet(all_equipment),
            f \in ToSet(formulas)}

C1_FlowBalance ==
    "material_flow_balance" \in built =>
        /\ {r.index : r \in material_flow_balance}
               = ToSet(materials) \X (t0..(tmax - 1))
        /\ \A r \in material_flow_balance :
              /\ RowsAt(material_flow_balance, r.index) = {r}
              /\ r.rel = "=="
              /\ r.lhs = Term(1, Ref("inventory_quantity",
                                     <<r.index[1], r.index[2] + 1>>))
              /\ r.rhs.const = 0
              /\ \A ref \in (DOMAIN r.rhs.terms)
                               \cup C1_FlowRefs(r.index[1], r.index[2]) :
                    Coef(r.rhs, ref) = C1_FlowCoef(r.index[1], r.index[2], ref)

\* a built balance in which a parent's production consumes a component
C1_Witness ==
    /\ "material_flow_balance" \in built
    /\ minimum_units_in_batch = 10
    /\ \E r \in material_flow_balance :
          /\ r.index = <<"B", tmax - 1>>
          /\ Coef(r.rhs, Ref("production", <<"A", "E1", "F1", tmax - 1>>)) = -20
          /\ Coef(r.rhs, Ref("production", <<"B", "E1", "F1", tmax - 1>>)) = 10

(***************************************************************************)
(* C2: once the inventory constraints have been created, for every         *)
(* material m with an entry in the mappings the model holds                *)
(* inventory[m,t0] == initial_inventory[m] and                             *)
(* inventory[m,tmax] >= safety_stock[m], one constraint per material.      *)
(***************************************************************************)
C2_InventoryBounds ==
    pc \notin {"constructed", "variables"} =>
        \A m \in ToSet(materials) :
            /\ m \in DOMAIN build_args.initial_inventory =>
                  \E r \in initial_inventory :
                      /\ r.lhs = Term(1, Ref("inventory_quantity", <<m, t0>>))
                      /\ r.rel = "=="
                      /\ r.rhs = Const(build_args.initial_inventory[m])
            /\ m \in DOMAIN build_args.safety_stock =>
                  \E r \in inventory_tmax_goe_than_safety_stock :
                      /\ r.lhs = Term(1, Ref("inventory_quantity", <<m, tmax>>))
                      /\ r.rel = ">="
                      /\ r.rhs = Const(build_args.safety_stock[m])

(***************************************************************************)
(* C3: production[m,e,f,t] == 0 and purchased[m,t] == 0 are in the model   *)
(* for every index with t % 24 < 8 or t % 24 > 20, and the operating-hours *)
(* gates hold no constraint at the indexes with 8 <= t % 24 <= 20.         *)
(***************************************************************************)
C3_OperatingHours ==
    /\ "no_production_at_t0" \in built =>
          /\ \A i \in production.index :
                IF i[4] % 24 < 8 \/ i[4] % 24 > 20
                THEN RowsAt(no_production_at_t0, i) = {ProductionIs0(i)}
                ELSE RowsAt(no_production_at_t0, i) = {}
          /\ \A r \in no_production_at_t0 : r.index \in production.index
    /\ "no_purchasing_when_factory_is_closed" \in built =>
          /\ \A i \in purchased_quantity.index :
                IF i[2] % 24 < 8 \/ i[2] % 24 > 20
                THEN RowsAt(no_purchasing_when_factory_is_closed, i)
                         = {PurchasedIs0(i)}
                ELSE RowsAt(no_purchasing_when_factory_is_closed, i) = {}
          /\ \A r \in no_purchasing_when_factory_is_closed :
                r.index \in purchased_quantity.index

\* both gates built over a horizon with closed hours before 8, open hours
\* (8 and 20 included) and closed hours after 20
C3_Witness ==
    /\ "no_purchasing_when_factory_is_closed" \in built
    /\ ProductionIs0(<<"A", "E1", "F1", 7>>) \in no_production_at_t0
    /\ ProductionIs0(<<"A", "E1", "F1", 21>>) \in no_production_at_t0
    /\ PurchasedIs0(<<"A", 24>>) \in no_purchasing_when_factory_is_closed
    /\ <<"A", "E1", "F1", 20>> \in production.index
    /\ <<"A", 32>> \in purchased_quantity.index

(***************************************************************************)
(* C4: production[m,e,f,t] == 0 is in the model at every index of every    *)
(* material that build_model classifies as externally procured (a child of *)
(* a BOM row), purchased[m,t] == 0 at every time of every material it      *)
(* classifies as produced in house (a parent of a BOM row), and the other  *)
(* materials get no such constraint.                                       *)
(***************************************************************************)
C4_Classification ==
    /\ "components_cannot_be_produced" \in built =>
          /\ \A i \in production.index :
                IF IsChildOfSomeRow(i[1])
                THEN RowsAt(components_cannot_be_produced, i) = {ProductionIs0(i)}
                ELSE RowsAt(components_cannot_be_produced, i) = {}
          /\ \A r \in components_cannot_be_produced :
                r.index \in production.index
    /\ "only_components_can_be_purchased" \in built =>
          /\ \A i \in purchased_quantity.index :
                IF IsParentOfSomeRow(i[1])
                THEN RowsAt(only_components_can_be_purchased, i) = {PurchasedIs0(i)}
                ELSE RowsAt(only_components_can_be_purchased, i) = {}
          /\ \A r \in only_components_can_be_purchased :
                r.index \in purchased_quantity.index

\* a two-level BOM: A is produced, B is procured
C4_Witness ==
    /\ "only_components_can_be_purchased" \in built
    /\ ProductionIs0(<<"B", "E1", "F1", 9>>) \in components_cannot_be_produced
    /\ RowsAt(components_cannot_be_produced, <<"A", "E1", "F1", 9>>) = {}
    /\ PurchasedIs0(<<"A", 9>>) \in only_components_can_be_purchased
    /\ RowsAt(only_components_can_be_purchased, <<"B", 9>>) = {}

AllAt(refs, x) == [v \in refs |-> x]

(***************************************************************************)
(* C5 (as amended): all_component_materials is exactly the materials that  *)
(* are the child of at least one BOM row, whether or not they are also a   *)
(* parent, and all_parent_materials exactly the materials that are the     *)
(* parent of at least one row; neither lists a material twice.             *)
(***************************************************************************)
C5_BomMaterialSets ==
    LET components == all_component_materials(build_args.bom)
        parents == all_parent_materials(build_args.bom)
    IN /\ ToSet(components) = {r.component : r \in BomRows}
       /\ ToSet(parents) = {r.manufactured_good : r \in BomRows}
       /\ Cardinality(ToSet(components)) = Len(components)
       /\ Cardinality(ToSet(parents)) = Len(parents)

\* C5 as stated: the component materials are the materials that are a child
\* and never a parent
C5_ComponentsAreChildOnly ==
    /\ ToSet(all_component_materials(build_args.bom))
          = {r.component : r \in BomRows}
              \ {r.manufactured_good : r \in BomRows}
    /\ ToSet(all_parent_materials(build_args.bom))
          = {r.manufactured_good : r \in BomRows}

\* build_model has classified the materials of a BOM with an intermediate
C5_Witness ==
    /\ "components_cannot_be_produced" \in built
    /\ "B" \in ToSet(all_component_materials(build_args.bom))
    /\ "B" \in ToSet(all_parent_materials(build_args.bom))
    /\ "C" \in ToSet(all_component_materials(build_args.bom))
    /\ "C" \notin ToSet(all_parent_materials(build_args.bom))

(***************************************************************************)
(* C6: for every (material, time) of the horizon the model holds           *)
(* filled_demand[m,t] == 0 when t % 24 is not the fulfillment hour and     *)
(* filled_demand[m,t] <= demand.get((m,t), 0); so a non-negative           *)
(* filled_demand is 0 where nothing is booked and at most the booked       *)
(* amount elsewhere.                                                       *)
(***************************************************************************)
C6_FilledValues == 0..6

C6_Demand ==
    "filled_demand_loe_than_demand" \in built =>
        /\ {r.index : r \in no_filled_demand_at_t0}
               \cup {r.index : r \in filled_demand_loe_than_demand}
               \subseteq filled_demand.index
        /\ \A i \in filled_demand.index :
            LET booked == IF i \in DOMAIN build_args.demand
                          THEN build_args.demand[i] ELSE 0
                here == RowsAt(no_filled_demand_at_t0, i)
                            \cup RowsAt(filled_demand_loe_than_demand, i)
            IN /\ RowsAt(no_filled_demand_at_t0, i)
                      = (IF i[2] % 24 # 8 THEN {FilledIs0(i)} ELSE {})
               /\ RowsAt(filled_demand_loe_than_demand, i)
                      = {Row(i, Term(1, Ref("filled_demand", i)), "<=",
                             Const(booked))}
               /\ \A x \in C6_FilledValues :
                     (\A r \in here :
                          Holds(r, AllAt({Ref("filled_demand", i)}, x)))
                     => /\ x <= booked
                        /\ (i \notin DOMAIN build_args.demand => x = 0)
                        /\ (i[2] % 24 # 8 => x = 0)

\* demand booked at the fulfillment hour of the first day, and at another hour;
\* the horizon reaches the fulfillment hour of the second day
C6_Witness ==
    /\ "filled_demand_loe_than_demand" \in built
    /\ Row(<<"A", 8>>, Term(1, Ref("filled_demand", <<"A", 8>>)), "<=", Const(5))
          \in filled_demand_loe_than_demand
    /\ RowsAt(no_filled_demand_at_t0, <<"A", 8>>) = {}
    /\ Row(<<"B", 9>>, Term(1, Ref("filled_demand", <<"B", 9>>)), "<=", Const(3))
          \in filled_demand_loe_than_demand
    /\ FilledIs0(<<"B", 9>>) \in no_filled_demand_at_t0
    /\ RowsAt(no_filled_demand_at_t0, <<"A", 32>>) = {}
    /\ <<"A", 32>> \in filled_demand.index

(***************************************************************************)
(* C7: for every (equipment, formula, time) of the horizon the model holds *)
(* batch * SUM(m) production[m,e,f,t] <= max_capacity.get((e,f), 0); with  *)
(* a capacity of 0 (mapped or defaulted) every non-negative production of  *)
(* the pair is 0.                                                          *)
(***************************************************************************)
C7_BatchValues == 0..2

C7_Capacity ==
    "production_doesnt_exceed_capacity" \in built =>
        /\ {r.index : r \in production_doesnt_exceed_capacity}
               = ToSet(all_equipment) \X ToSet(formulas) \X (t0..tmax)
        /\ \A r \in production_doesnt_exceed_capacity :
            LET e == r.index[1]
                f == r.index[2]
                t == r.index[3]
                refs == {Ref("production", <<m, e, f, t>>) : m \in ToSet(materials)}
                capacity == IF <<e, f>> \in DOMAIN build_args.max_capacity
                            THEN build_args.max_capacity[<<e, f>>] ELSE 0
            IN /\ RowsAt(production_doesnt_exceed_capacity, r.index) = {r}
               /\ r.lhs = [terms |-> [v \in refs |-> minimum_units_in_batch],
                           const |-> 0]
               /\ r.rel = "<="
               /\ r.rhs = Const(capacity)
               /\ capacity = 0 =>
                     \A val \in [refs -> C7_BatchValues] :
                         Holds(r, val) => \A v \in refs : val[v] = 0

\* a batch of 10 units, a pair with capacity 30, one with capacity 0 and one
\* the capacity map does not name
C7_Witness ==
    /\ "production_doesnt_exceed_capacity" \in built
    /\ minimum_units_in_batch = 10
    /\ materials = <<"A", "B">>
    /\ \E r \in production_doesnt_exceed_capacity :
          r.index = <<"E2", "F1", 9>> /\ r.rhs = Const(30)
    /\ \E r \in production_doesnt_exceed_capacity :
          /\ r.index = <<"E1", "F1", 9>>
          /\ r.rhs = Const(0)
          /\ <<"E1", "F1">> \in DOMAIN build_args.max_capacity
    /\ \E r \in production_doesnt_exceed_capacity :
          /\ r.index = <<"E2", "F2", 9>>
          /\ r.rhs = Const(0)
          /\ <<"E2", "F2">> \notin DOMAIN build_args.max_capacity

(***************************************************************************)
(* C8: equipment_status is a binary variable over equipment x time, and    *)
(* under the two status constraints of an (equipment, time) its value is 1 *)
(* exactly when the production summed over all materials and formulas on   *)
(* that equipment at that time is greater than 0.  Production is a         *)
(* non-negative real: it is counted here in half batches, so the status    *)
(* counts 2 when it is 1.                                                  *)
(***************************************************************************)
C8_HalfBatches == {0, 1, 2, 3, 2 * BIG_M, 2 * BIG_M + 1}

C8_StatusValues == IF equipment_status.domain = "Binary" THEN {0, 1} ELSE 0..3

C8_EquipmentStatus ==
    "equipment_status_loe_than_production" \in built =>
        /\ equipment_status.domain = "Binary"
        /\ equipment_status.index = ToSet(all_equipment) \X (t0..tmax)
        /\ \A i \in equipment_status.index :
            LET refs == {Ref("production", <<m, i[1], f, i[2]>>) :
                            m \in ToSet(materials), f \in ToSet(formulas)}
                here == RowsAt(equipment_status_loe_than_production, i)
                          \cup RowsAt(equipment_status_is_active_when_producing, i)
            IN /\ Cardinality(here) = 2
               /\ \A r \in RowsAt(equipment_status_loe_than_production, i) :
                     DOMAIN r.rhs.terms = refs
               /\ \A r \in RowsAt(equipment_status_is_active_when_producing, i) :
                     DOMAIN r.lhs.terms = refs
               /\ \A s \in C8_StatusValues, h \in C8_HalfBatches, v \in refs :
                     LET val == (Ref("equipment_status", i) :> 2 * s)
                                    @@ (v :> h) @@ AllAt(refs, 0)
                     IN (\A r \in here : Holds(r, val)) => (s = 1 <=> h > 0)

\* both status constraints built for an equipment that runs two materials
\* under two formulas
C8_Witness ==
    /\ "equipment_status_loe_than_production" \in built
    /\ "equipment_status_is_active_when_producing" \in built
    /\ materials = <<"A", "B">>
    /\ formulas = <<"F1", "F2">>
    /\ \E r \in equipment_status_is_active_when_producing :
          /\ r.index = <<"E2", 9>>
          /\ Holds(r, (Ref("equipment_status", <<"E2", 9>>) :> 2)
                        @@ (Ref("production", <<"B", "E2", "F2", 9>>) :> 3))
          /\ ~Holds(r, (Ref("equipment_status", <<"E2", 9>>) :> 0)
                         @@ (Ref("production", <<"B", "E2", "F2", 9>>) :> 3))

(***************************************************************************)
(* C9: for every equipment e and every t with t0 <= t <= tmax - 4 the      *)
(* model holds SUM of equipment_status[e,tau] for tau in [t, t+4] <= 4.    *)
(***************************************************************************)
C9_MaxContinuousRun ==
    "max_continuous_production_time_limit" \in built =>
        \A e \in ToSet(all_equipment), t \in t0..(tmax - 4) :
            RowsAt(max_continuous_production_time_limit, <<e, t>>)
                = {Row(<<e, t>>,
                       [terms |-> [v \in {Ref("equipment_status", <<e, tau>>) :
                                             tau \in t..(t + 4)} |-> 1],
                        const |-> 0],
                       "<=", Const(4))}

(***************************************************************************)
(* C10: once the production constraints have been created,                 *)
(* production[m,e,f,t0] is forced to 0 for every material, equipment and   *)
(* formula: by a row production == 0, or by a capacity of 0.               *)
(***************************************************************************)
C10_NoProductionAtT0 ==
    "no_production_at_t0" \in built =>
        \A i \in production.index :
            i[4] = t0 =>
                \/ ProductionIs0(i) \in no_production_at_t0
                \/ ProductionIs0(i) \in components_cannot_be_produced
                \/ \E r \in production_doesnt_exceed_capacity :
                      /\ r.index = <<i[2], i[3], i[4]>>
                      /\ Ref("production", i) \in DOMAIN r.lhs.terms
                      /\ r.lhs.terms[Ref("production", i)] > 0
                      /\ r.rhs = Const(0)

(***************************************************************************)
(* C11: the objective is maximized and is the sum over every (material,    *)
(* time) of the horizon of price(m) * filled_demand[m,t]                   *)
(* - inventory cost(m) * inventory[m,t] - purchase cost(m) * purchased[m,t]*)
(* - batch * SUM(e,f) production cost(e,f) * production[m,e,f,t], a price  *)
(* or cost that is not mapped counting as 0; assembling it never ends the  *)
(* build with an error.                                                    *)
(***************************************************************************)
C11_Price(mapping, key) == IF key \in DOMAIN mapping THEN mapping[key] ELSE 0

C11_ObjectiveCoef(ref) ==
    LET costs == objective_args.costs
        i == ref[2]
        in_horizon == /\ i[1] \in ToSet(materials)
                      /\ i[Len(i)] \in t0..tmax
    IN IF ~in_horizon THEN 0
       ELSE CASE ref[1] = "filled_demand" ->
                     C11_Price(objective_args.selling_prices, i[1])
              [] ref[1] = "inventory_quantity" ->
                     0 - C11_Price(costs.inventory, i[1])
              [] ref[1] = "purchased_quantity" ->
                     0 - C11_Price(costs.purchase, i[1])
              [] ref[1] = "production" ->
                     IF i[2] \in ToSet(all_equipment) /\ i[3] \in ToSet(formulas)
                     THEN 0 - minimum_units_in_batch
                                  * C11_Price(costs.production, <<i[2], i[3]>>)
                     ELSE 0
              [] OTHER -> 0

C11_Refs ==
    {Ref("production", i) : i \in production.index}
    \cup {Ref("filled_demand", i) : i \in filled_demand.index}
    \cup {Ref("inventory_quantity", i) : i \in inventory_quantity.index}
    \cup {Ref("purchased_quantity", i) : i \in purchased_quantity.index}
    \cup {Ref("equipment_status", i) : i \in equipment_status.index}

C11_Objective ==
    /\ "objective" \in built =>
          /\ objective.sense = "maximize"
          /\ objective.expr.const = 0
          /\ \A ref \in (DOMAIN objective.expr.terms) \cup C11_Refs :
                Coef(objective.expr, ref) = C11_ObjectiveCoef(ref)
    /\ ("no_purchasing_when_factory_is_closed" \in built
           /\ "objective" \notin built) => pc = "purchasing"

\* an objective with a mapped and an unmapped price, purchase cost and
\* production cost
C11_Witness ==
    /\ "objective" \in built
    /\ minimum_units_in_batch = 10
    /\ Coef(objective.expr, Ref("filled_demand", <<"A", 8>>)) = 20
    /\ "B" \notin DOMAIN objective_args.selling_prices
    /\ Coef(objective.expr, Ref("filled_demand", <<"B", 8>>)) = 0
    /\ Coef(objective.expr, Ref("purchased_quantity", <<"B", tmax>>)) = -4
    /\ Coef(objective.expr, Ref("inventory_quantity", <<"B", t0>>)) = -1
    /\ Coef(objective.expr, Ref("production", <<"B", "E1", "F1", 9>>)) = -30
    /\ <<"E2", "F1">> \notin DOMAIN objective_args.costs.production
    /\ Ref("production", <<"B", "E2", "F1", 9>>) \in DOMAIN objective.expr.terms
    /\ Coef(objective.expr, Ref("production", <<"B", "E2", "F1", 9>>)) = 0

(***************************************************************************)
(* C12: get_required_quantity returns the number 0 for every (formula,     *)
(* parent, child) that is not a row of the BOM and the proportion of the   *)
(* row otherwise, and no step of the run changes the Bom it looks up.      *)
(***************************************************************************)
C12_Formulas == {"F1", "F2", "F3"}
C12_Materials == {"A", "B", "C", "Z"}

C12_Lookup ==
    \A f \in C12_Formulas, parent \in C12_Materials, child \in C12_Materials :
        LET found == get_required_quantity(build_args.bom, f, parent, child)
            rows == {r \in BomRows : /\ r.formula = f
                                      /\ r.manufactured_good = parent
                                      /\ r.component = child}
        IN /\ rows = {} => found = [list |-> FALSE, value |-> 0]
           /\ \A r \in rows :
                 Cardinality(rows) = 1 =>
                     found = [list |-> FALSE, value |-> r.material_to_quantity]

C12_RequiredQuantity ==
    /\ []C12_Lookup
    /\ [][build_args'.bom = build_args.bom]_vars

\* the flow balance has looked up the triples of a two-level BOM, rows and
\* others
C12_Witness ==
    /\ "material_flow_balance" \in built
    /\ BomRow("F1", "A", "B", 2) \in BomRows
    /\ get_required_quantity(build_args.bom, "F1", "A", "B").value = 2
    /\ \A r \in BomRows : <<r.formula, r.manufactured_good, r.component>>
                               # <<"F2", "A", "B">>
    /\ get_required_quantity(build_args.bom, "F2", "A", "B").value = 0
    /\ get_required_quantity(build_args.bom, "F1", "B", "A").value = 0

(***************************************************************************)
(* C13: each index builder returns the list of every combination of its    *)
(* input lists with every time of [t0, tmax], each once, materials         *)
(* outermost, then equipment, then formula, time innermost; two calls with *)
(* the same inputs return the same list.                                   *)
(***************************************************************************)
\* the k-th tuple (from 1) of the product of the lists ls, the last list
\* running fastest
RECURSIVE C13_Tuple(_, _)
C13_Tuple(ls, k) ==
    IF ls = <<>> THEN <<>>
    ELSE LET last == ls[Len(ls)]
         IN Append(C13_Tuple(SubSeq(ls, 1, Len(ls) - 1),
                             ((k - 1) \div Len(last)) + 1),
                   last[((k - 1) % Len(last)) + 1])

RECURSIVE C13_Size(_)
C13_Size(ls) ==
    IF ls = <<>> THEN 1 ELSE Len(ls[1]) * C13_Size(Tail(ls))

C13_IsProduct(indexes, ls) ==
    /\ Len(indexes) = C13_Size(ls)
    /\ \A k \in DOMAIN indexes : indexes[k] = C13_Tuple(ls, k)
    /\ Cardinality(ToSet(indexes)) = Len(indexes)

C13_IndexBuilders ==
    \A last \in {t0, tmax} :
        LET times == [n \in 1..(last - t0 + 1) |-> t0 + n - 1]
        IN /\ C13_IsProduct(build_material_time_indexes(materials, t0, last),
                            <<materials, times>>)
           /\ C13_IsProduct(
                  build_material_equipment_formula_time_indexes(
                      materials, all_equipment, formulas, t0, last),
                  <<materials, all_equipment, formulas, times>>)
           /\ C13_IsProduct(
                  build_equipment_formula_time_indexes(
                      all_equipment, formulas, t0, last),
                  <<all_equipment, formulas, times>>)
           /\ C13_IsProduct(build_equipment_time_indexes(all_equipment, t0, last),
                            <<all_equipment, times>>)
           /\ BaseConstraint(materials, t0, last).all_materials_all_time_indexes
                  = build_material_time_indexes(materials, t0, last)

\* the variables created over the indexes of two materials, two equipment
\* and two formulas from hour 8 to the last hour explored
C13_Witness ==
    /\ pc = "variables"
    /\ materials = <<"A", "B">>
    /\ all_equipment = <<"E1", "E2">>
    /\ formulas = <<"F1", "F2">>
    /\ t0 = 8
    /\ tmax = MaxTime
    /\ Cardinality(production.index) = 8 * (MaxTime - 7)
    /\ material_equipment_formula_time_indexes[MaxTime - 7 + 1]
          = <<"A", "E1", "F2", 8>>
    /\ material_equipment_formula_time_indexes[8 * (MaxTime - 7)]
          = <<"B", "E2", "F2", MaxTime>>

(***************************************************************************)
(* C14: build_model creates the five variable families, then the           *)
(* inventory, production, flow balance, demand and purchasing constraints, *)
(* then the objective: each step starts where the previous one ended, no   *)
(* constraint family exists before the variables, no family before the     *)
(* families of the earlier steps, and the objective exists only when every *)
(* family does.                                                            *)
(***************************************************************************)
C14_Order ==
    <<"constructed", "variables", "inventory", "production", "flow", "demand",
      "purchasing", "objective">>

C14_Families ==
    <<{"production", "filled_demand", "inventory_quantity",
       "purchased_quantity", "equipment_status"},
      {"initial_inventory", "inventory_tmax_goe_than_safety_stock"},
      {"no_production_at_t0", "components_cannot_be_produced",
       "production_doesnt_exceed_capacity",
       "equipment_status_is_active_when_producing",
       "equipment_status_loe_than_production",
       "max_continuous_production_time_limit"},
      {"material_flow_balance"},
      {"no_filled_demand_at_t0", "filled_demand_loe_than_demand"},
      {"only_components_can_be_purchased",
       "no_purchasing_when_factory_is_closed"},
      {"objective"}>>

C14_Built ==
    /\ \A k \in DOMAIN C14_Order :
          pc = C14_Order[k] =>
              built = UNION {C14_Families[j] : j \in 1..(k - 1)}
    /\ \A k \in DOMAIN C14_Families :
          built \cap C14_Families[k] # {} =>
              \A j \in 1..(k - 1) : C14_Families[j] \subseteq built

C14_Step ==
    \E k \in 1..(Len(C14_Order) - 1) :
        /\ pc = C14_Order[k]
        /\ pc' \in {C14_Order[k + 1], "error"}
        /\ built' \subseteq built \cup C14_Families[k]

C14_BuildOrder ==
    /\ []C14_Built
    /\ [][C14_Step]_vars

\* a build that has set its objective
C14_Witness ==
    /\ pc = "objective"
    /\ built = UNION {C14_Families[j] : j \in DOMAIN C14_Families}
    /\ objective.sense = "maximize"

(***************************************************************************)
(* C15: when the solver reports the termination condition infeasible,      *)
(* solve() raises SystemError: the results are not generated, the results  *)
(* field stays unset, nothing is reported, and the solver has been invoked *)
(* once.                                                                   *)
(***************************************************************************)
C15_Infeasible ==
    termination_condition = "infeasible" =>
        /\ pc = "error"
        /\ error = "SystemError"
        /\ results = NoResults
        /\ reports = NoResults
        /\ solver_calls = 1

\* a built model no plan satisfies (a negative demand), after solve()
C15_Witness ==
    /\ termination_condition = "infeasible"
    /\ IsInfeasibleModel
    /\ "objective" \in built
    /\ error = "SystemError"

(***************************************************************************)
(* C16 (as stated): solve() produces result tables only when the solver    *)
(* found a solution, whatever the solver reports, and invokes the solver   *)
(* once.                                                                   *)
(***************************************************************************)
C16_TablesOnlyWithSolution ==
    /\ results # NoResults => solution.loaded
    /\ solver_calls <= 1

(***************************************************************************)
(* C17 (as stated): under any order of the calls, no constraint family     *)
(* exists before the five variable families, results exist only for a      *)
(* model with its objective set, and a solve() that returns tables starts  *)
(* from the Objective Set state of an orchestrator not solved before.      *)
(***************************************************************************)
C17_Dependencies ==
    /\ built \cap UNION {C14_Families[k] : k \in 2..6} # {} =>
           C14_Families[1] \subseteq built
    /\ results # NoResults => "objective" \in built

C17_SolveReturns == solver_calls' = solver_calls + 1 /\ pc' = "results"

C17_StateMachine ==
    /\ []C17_Dependencies
    /\ [][C17_SolveReturns => pc = "objective" /\ solver_calls = 0]_vars

(***************************************************************************)
(* C18: the results are one table per variable family, with the columns    *)
(* (material, equipment, formula, time, batches) for production,           *)
(* (material, time, quantity) for filled_demand, inventory_quantity and    *)
(* purchased_quantity, (equipment, time, status) for equipment_status;     *)
(* the rows of a table are the indexes of its family, one row each, with   *)
(* the value of the variable; a reported table is the rows of the result   *)
(* table whose value is not 0.                                             *)
(***************************************************************************)
C18_Columns ==
    [production |-> <<"material", "equipment", "formula", "time", "batches">>,
     filled_demand |-> <<"material", "time", "quantity">>,
     inventory_quantity |-> <<"material", "time", "quantity">>,
     purchased_quantity |-> <<"material", "time", "quantity">>,
     equipment_status |-> <<"equipment", "time", "status">>]

\* the index and the value of a row, read by the claimed columns
C18_Key(name, row) ==
    [n \in 1..(Len(C18_Columns[name]) - 1) |-> row[C18_Columns[name][n]]]

C18_Value(name, row) == row[C18_Columns[name][Len(C18_Columns[name])]]

C18_Table(name) ==
    LET table == results[name]
    IN /\ \A k \in DOMAIN table :
             /\ DOMAIN table[k] = ToSet(C18_Columns[name])
             /\ C18_Value(name, table[k]) =
                    IF solution.loaded
                    THEN PlanValue(solution.plan,
                                   Ref(name, C18_Key(name, table[k])))
                    ELSE NaN
       /\ {C18_Key(name, table[k]) : k \in DOMAIN table} = VarIndex(name)
       /\ Len(table) = Cardinality(VarIndex(name))

C18_Report(name) ==
    LET table == results[name]
        report == reports[name]
    IN /\ \A k \in DOMAIN report : C18_Value(name, report[k]) # 0
       /\ ToSet(report) = {row \in ToSet(table) : C18_Value(name, row) # 0}
       /\ Cardinality(ToSet(report)) = Len(report)

C18_ResultTables ==
    /\ results # NoResults =>
           /\ DOMAIN results = DOMAIN C18_Columns
           /\ \A name \in DOMAIN results : C18_Table(name)
    /\ reports # NoResults =>
           /\ DOMAIN reports = DOMAIN C18_Columns
           /\ \A name \in DOMAIN reports : C18_Report(name)

\* the reports of a plan that buys and fills 5 units of A at hour 8
C18_Witness ==
    /\ pc = "reported"
    /\ solution.plan = Plan(5, 0, 5, 0, 0)
    /\ Len(results.purchased_quantity) > 1
    /\ reports.purchased_quantity =
           <<[material |-> "A", time |-> 8, quantity |-> 5]>>
    /\ reports.filled_demand =
           <<[material |-> "A", time |-> 8, quantity |-> 5]>>
    /\ reports.production = <<>>

(***************************************************************************)
(* C19 (as stated): when a material of the material list has no entry in   *)
(* the initial_inventory mapping, build_model fails with a KeyError for    *)
(* the material before any variable or constraint is added to the model.   *)
(***************************************************************************)
C19_MissingEntry ==
    \E m \in ToSet(materials) : m \notin DOMAIN build_args.initial_inventory

C19_FailsFast ==
    C19_MissingEntry =>
        /\ pc \in {"constructed", "error"}
        /\ built = {}
        /\ pc = "error" => error = "KeyError"

(***************************************************************************)
(* C20 (as stated): however the orchestrator was constructed, the index    *)
(* lists the constraint builders work on are the index sets of the         *)
(* variables the orchestrator created, and the demand constraint has one   *)
(* row for each index of the filled demand variable.                       *)
(***************************************************************************)
C20_Builder ==
    ProductionConstraintsBuilder(materials, t0, tmax, all_equipment, formulas,
                                 minimum_units_in_batch)

C20_IndexAligned ==
    C14_Families[1] \subseteq built =>
        /\ ToSet(BaseConstraint(materials, t0, tmax)
                     .all_materials_all_time_indexes)
              = filled_demand.index
        /\ filled_demand.index = inventory_quantity.index
        /\ filled_demand.index = purchased_quantity.index
        /\ ToSet(C20_Builder.material_equipment_formula_time_indexes)
              = production.index
        /\ ToSet(C20_Builder.equipment_time_indexes) = equipment_status.index
        /\ "filled_demand_loe_than_demand" \in built =>
               {row.index : row \in filled_demand_loe_than_demand}
                   = filled_demand.index

(***************************************************************************)
(* C21 (as stated): for one material, one equipment, one formula, the      *)
(* horizon [0, 48], batches of 10, an initial inventory of 100, a safety   *)
(* stock of 0 and a demand of 5 units at hour 32, build_model builds a     *)
(* model in which the fill at hour 32 is bounded by 5 and the plan that    *)
(* fills the 5 units from the stock of 100, with no production, satisfies  *)
(* every constraint.                                                       *)
(***************************************************************************)
C21_IsScenario ==
    /\ materials = <<"A">>
    /\ all_equipment = <<"E1">>
    /\ formulas = <<"F1">>
    /\ t0 = 0
    /\ tmax = 48
    /\ minimum_units_in_batch = 10
    /\ build_args.initial_inventory = "A" :> 100
    /\ build_args.safety_stock = "A" :> 0
    /\ build_args.demand = <<"A", 32>> :> 5

\* the stock of 100 kept until hour 32, 5 units filled at hour 32
C21_FillFromStock ==
    (Ref("filled_demand", <<"A", 32>>) :> 5)
    @@ [v \in {Ref("inventory_quantity", i) : i \in inventory_quantity.index}
          |-> IF v[2][2] > 32 THEN 95 ELSE 100]

C21_EndToEnd ==
    C21_IsScenario =>
        /\ pc # "error"
        /\ "objective" \in built =>
               /\ Row(<<"A", 32>>, Term(1, Ref("filled_demand", <<"A", 32>>)),
                      "<=", Const(5)) \in filled_demand_loe_than_demand
               /\ \A row \in AllRows : Holds(row, C21_FillFromStock)

(***************************************************************************)
(* C22 (as amended): when max_capacity maps (equipment, formula) to 0, the *)
(* capacity row of every time allows no production on the pair, for any    *)
(* material; and the built model stays feasible whether or not the booked  *)
(* demand can be filled, because the demand only bounds the fill from      *)
(* above: the plan that does nothing satisfies every constraint.           *)
(***************************************************************************)
C22_ZeroCapacityPairs ==
    {p \in DOMAIN build_args.max_capacity : build_args.max_capacity[p] = 0}

\* the capacity row of the index allows no batch of any material
C22_NoProduction(i) ==
    \E row \in production_doesnt_exceed_capacity :
        /\ row.index = <<i[2], i[3], i[4]>>
        /\ row.rel = "<=" /\ row.rhs = Const(0) /\ row.lhs.const = 0
        /\ \A v \in DOMAIN row.lhs.terms : row.lhs.terms[v] > 0
        /\ Ref("production", i) \in DOMAIN row.lhs.terms
        /\ ~Holds(row, Ref("production", i) :> 1)

\* a demand booked where a row fixes the fill to 0
C22_Uncoverable ==
    \E i \in DOMAIN build_args.demand :
        /\ build_args.demand[i] > 0
        /\ i \in filled_demand.index
        /\ FilledIs0(i) \in no_filled_demand_at_t0

\* the plan that does nothing satisfies every constraint
C22_DoNothingIsFeasible == \A row \in AllRows : Holds(row, NoTerms)

C22_ZeroCapacity ==
    /\ "production_doesnt_exceed_capacity" \in built =>
           \A i \in production.index :
               <<i[2], i[3]>> \in C22_ZeroCapacityPairs => C22_NoProduction(i)
    /\ ("objective" \in built /\ C22_ZeroCapacityPairs # {}) =>
           C22_DoNothingIsFeasible

\* a built model with capacity 0 and a demand that cannot be filled
C22_Witness ==
    /\ "objective" \in built
    /\ build_args.max_capacity = <<"E1", "F1">> :> 0
    /\ C22_NoProduction(<<"A", "E1", "F1", 9>>)
    /\ build_args.demand = <<"A", 33>> :> 5
    /\ C22_Uncoverable
    /\ C22_DoNothingIsFeasible

(***************************************************************************)
(* C22 (as stated): with capacity 0 the model is infeasible when the       *)
(* booked demand cannot be filled.                                         *)
(***************************************************************************)
C22_InfeasibleWhenUncovered ==
    ("objective" \in built /\ C22_ZeroCapacityPairs # {} /\ C22_Uncoverable) =>
        ~C22_DoNothingIsFeasible

(***************************************************************************)
(* C23 (as stated): for every row of the BOM, get_required_quantity of the *)
(* row's (formula, parent, child) is a single number, the row's            *)
(* proportion, also when a triple occurs in more than one row.             *)
(***************************************************************************)
C23_SingleNumber ==
    \A r \in BomRows :
        LET found == get_required_quantity(build_args.bom, r.formula,
                                           r.manufactured_good, r.component)
        IN /\ ~found.list
           /\ found.value \in {x.material_to_quantity :
                                   x \in {y \in BomRows :
                                             /\ y.formula = r.formula
                                             /\ y.manufactured_good =
                                                    r.manufactured_good
                                             /\ y.component = r.component}}

(***************************************************************************)
(* C24 (as stated): with t0 = 0 and the filling hour 8, once the inventory *)
(* step has run the model fixes inventory[m,t0] for every material, and    *)
(* the built model holds production == 0, purchased == 0 and               *)
(* filled_demand == 0 at every index of t0 and the flow balance row that   *)
(* carries inventory[m,t0] to t0 + 1.                                      *)
(***************************************************************************)
C24_StartIsFixed(m) ==
    \E r \in initial_inventory :
        /\ r.lhs = Term(1, Ref("inventory_quantity", <<m, t0>>))
        /\ r.rel = "=="
        /\ DOMAIN r.rhs.terms = {}

C24_NothingHappensAtStart ==
    /\ \A i \in production.index :
          i[4] = t0 => ProductionIs0(i) \in no_production_at_t0
    /\ \A m \in ToSet(materials) :
          /\ PurchasedIs0(<<m, t0>>) \in no_purchasing_when_factory_is_closed
          /\ FilledIs0(<<m, t0>>) \in no_filled_demand_at_t0
          /\ \E r \in material_flow_balance :
                /\ r.index = <<m, t0>>
                /\ r.lhs = Term(1, Ref("inventory_quantity", <<m, t0 + 1>>))
                /\ Coef(r.rhs, Ref("inventory_quantity", <<m, t0>>)) = 1

C24_ProtectedStart ==
    (t0 = 0 /\ pc \notin {"constructed", "variables"}) =>
        /\ \A m \in ToSet(materials) : C24_StartIsFixed(m)
        /\ "objective" \in built => C24_NothingHappensAtStart

\* ---------------------------------------------------------------------
\* C25: run_production_problem turns demand day p into hour
\* (p - 1) * 24 + 8 and sets tmax to ((latest hour // 24) + 1) * 24 - 4.
\* Once the optimizer is constructed, every demand time is the filling
\* hour of its day (t % 24 = 8), lies strictly after t0 = 0 and strictly
\* before tmax, and tmax is a closing hour (tmax % 24 = 20).
\* ---------------------------------------------------------------------
C25_Converted ==
    pc = "read" =>
        /\ DOMAIN build_args'.demand
              = {<<k[1], (k[2] - 1) * 24 + 8>> : k \in DOMAIN build_args.demand}
        /\ \A k \in DOMAIN build_args.demand :
              build_args'.demand[<<k[1], (k[2] - 1) * 24 + 8>>]
                 = build_args.demand[k]
        /\ \E k \in DOMAIN build_args'.demand :
              /\ \A j \in DOMAIN build_args'.demand : j[2] <= k[2]
              /\ tmax' = ((k[2] \div 24) + 1) * 24 - 4

C25_InsideHorizon ==
    pc # "read" =>
        /\ t0 = 0
        /\ tmax % 24 = 20
        /\ \A k \in DOMAIN build_args.demand :
              /\ k[2] % 24 = 8
              /\ t0 < k[2]
              /\ k[2] < tmax

C25_AnyDays ==
    \A p \in 1..MaxDay, q \in 1..MaxDay :
        LET hours == demand_in_hours((<<"A", p>> :> 5) @@ (<<"B", q>> :> 3))
            last == simulation_duration(hours)
        IN  /\ DOMAIN hours = {<<"A", (p - 1) * 24 + 8>>, <<"B", (q - 1) * 24 + 8>>}
            /\ last % 24 = 20
            /\ \A k \in DOMAIN hours : k[2] % 24 = 8 /\ 0 < k[2] /\ k[2] < last
            /\ \E k \in DOMAIN hours : last - k[2] = 12

C25_DemandHours ==
    [][C25_Converted]_vars /\ [](C25_InsideHorizon /\ C25_AnyDays)

C25_Witness ==
    /\ pc = "results"
    /\ tmax = 44
    /\ DOMAIN build_args.demand = {<<"A", 8>>, <<"A", 32>>}

\* ---------------------------------------------------------------------
\* C26: stock is conserved over the whole horizon.  In every plan that
\* satisfies all constraints of the built model, for every material the
\* demand filled over [t0, tmax], tmax included, is at most the material's
\* initial inventory plus what is purchased plus the batch size times what
\* is produced minus the batch size times what is consumed as a child.
\* ---------------------------------------------------------------------
C26_Total(plan, family, S) ==
    SumOver(S, [i \in S |-> PlanValue(plan, Ref(family, i))])

C26_Filled(plan, m) ==
    C26_Total(plan, "filled_demand", {i \in filled_demand.index : i[1] = m})

C26_Purchased(plan, m) ==
    C26_Total(plan, "purchased_quantity",
              {i \in purchased_quantity.index : i[1] = m})

C26_Produced(plan, m) ==
    C26_Total(plan, "production", {i \in production.index : i[1] = m})

C26_Consumed(plan, m) ==
    LET made == {i \in production.index :
                    PlanValue(plan, Ref("production", i)) # 0}
    IN SumOver(made,
               [i \in made |->
                   get_required_quantity(build_args.bom, i[3], i[1], m).value
                   * PlanValue(plan, Ref("production", i))])

C26_Supply(plan, m, stock) ==
    stock + C26_Purchased(plan, m)
    + minimum_units_in_batch * C26_Produced(plan, m)
    - minimum_units_in_batch * C26_Consumed(plan, m)

C26_StockConserved ==
    "objective" \in built =>
        \A plan \in Plans :
            IsFeasiblePlan(plan) =>
                \A m \in ToSet(materials) :
                    C26_Filled(plan, m)
                       <= C26_Supply(plan, m,
                                     Get(build_args.initial_inventory, m, 0))

\* ---------------------------------------------------------------------
\* C27: a material of the model that is the parent of one BOM row and the
\* child of another is in both classification sets of build_model: the
\* model fixes its production to 0 at every production index and its
\* purchase to 0 at every time, and in each of its balance rows the only
\* term that can add to the next hour's inventory is the current inventory,
\* so its inventory can never increase.
\* ---------------------------------------------------------------------
C27_Intermediates ==
    {m \in ToSet(materials) : IsParentOfSomeRow(m) /\ IsChildOfSomeRow(m)}

C27_InBothSets(m) ==
    /\ m \in ToSet(all_component_materials(build_args.bom))
    /\ m \in ToSet(all_parent_materials(build_args.bom))

C27_NeverProduced(m) ==
    \A i \in production.index :
        i[1] = m => ProductionIs0(i) \in components_cannot_be_produced

C27_NeverPurchased(m) ==
    \A i \in purchased_quantity.index :
        i[1] = m => PurchasedIs0(i) \in only_components_can_be_purchased

\* every row the model has for an inflow fixes it to 0
C27_IsFixedTo0(ref) ==
    \/ ref[1] = "production"
         /\ ProductionIs0(ref[2]) \in components_cannot_be_produced
    \/ ref[1] = "purchased_quantity"
         /\ PurchasedIs0(ref[2]) \in only_components_can_be_purchased

C27_NeverIncreases(m) ==
    \A t \in t0..(tmax - 1) :
        \E r \in material_flow_balance :
            /\ r.index = <<m, t>>
            /\ r.rel = "=="
            /\ r.lhs = Term(1, Ref("inventory_quantity", <<m, t + 1>>))
            /\ r.rhs.const = 0
            /\ Coef(r.rhs, Ref("inventory_quantity", <<m, t>>)) = 1
            /\ \A ref \in DOMAIN r.rhs.terms :
                  \/ ref = Ref("inventory_quantity", <<m, t>>)
                  \/ Coef(r.rhs, ref) <= 0
                  \/ C27_IsFixedTo0(ref)

C27_IntermediateIsFrozen ==
    \A m \in C27_Intermediates :
        /\ C27_InBothSets(m)
        /\ "components_cannot_be_produced" \in built => C27_NeverProduced(m)
        /\ "only_components_can_be_purchased" \in built =>
               /\ C27_NeverPurchased(m)
               /\ C27_NeverIncreases(m)

C27_Witness ==
    /\ "objective" \in built
    /\ C27_Intermediates = {"B"}
    /\ tmax = MaxTime
    /\ \E r \in material_flow_balance :
          /\ r.index = <<"B", 9>>
          /\ Coef(r.rhs, Ref("production", <<"B", "E1", "F1", 9>>))
                = minimum_units_in_batch
          /\ Coef(r.rhs, Ref("production", <<"A", "E1", "F1", 9>>))
                = - 2 * minimum_units_in_batch

\* ---------------------------------------------------------------------
\* C28: every variable index a constraint rule or the objective refers to
\* is an index of the variables made by _create_variables, for every BOM,
\* material list and horizon: no rule fails on a variable lookup once the
\* variables exist, and every reference of every row and of the objective
\* is inside its variable's index.
\* ---------------------------------------------------------------------
C28_RowsInsideIndex ==
    \A row \in AllRows : \A ref \in RowRefs(row) : ref[2] \in VarIndex(ref[1])

C28_ObjectiveInsideIndex ==
    "objective" \in built =>
        \A ref \in DOMAIN objective.expr.terms : ref[2] \in VarIndex(ref[1])

C28_NoLookupFails ==
    ("max_continuous_production_time_limit" \in built /\ pc = "error") =>
        error # "KeyError"

C28_IndexesExist ==
    "production" \in built =>
        /\ C28_RowsInsideIndex
        /\ C28_ObjectiveInsideIndex
        /\ C28_NoLookupFails

\* ---------------------------------------------------------------------
\* C29: with a binary status and status[e,t] <= total <= 1e8 * status[e,t],
\* where total is the number of batches of all materials and formulas on
\* equipment e at time t, every total the two rows allow is 0 or at least
\* 1 and at most 1e8; a total strictly between 0 and 1 is allowed by no
\* status; and when the capacities of the equipment, summed over the
\* formulas and divided by the batch size, are at most 1e8, every
\* production the capacity rows allow of at least one batch satisfies the
\* upper row with status 1.  Values are counted in half batches.
\* ---------------------------------------------------------------------
C29_HalfBatches == {0, 1, 2, 3, 2 * BIG_M, 2 * BIG_M + 1}

C29_InHalves(expr) == [expr EXCEPT !.const = 2 * @]

C29_Holds(row, val) ==
    Holds([row EXCEPT !.lhs = C29_InHalves(@), !.rhs = C29_InHalves(@)], val)

C29_Refs(i) ==
    {Ref("production", <<m, i[1], f, i[2]>>) :
        m \in ToSet(materials), f \in ToSet(formulas)}

C29_Link(i) ==
    RowsAt(equipment_status_loe_than_production, i)
    \cup RowsAt(equipment_status_is_active_when_producing, i)

C29_CapacityRows(i) ==
    {r \in production_doesnt_exceed_capacity :
        r.index[1] = i[1] /\ r.index[3] = i[2]}

C29_CapacityOf(e) ==
    LET fs == ToSet(formulas)
    IN SumOver(fs, [f \in fs |-> Get(build_args.max_capacity, <<e, f>>, 0)])

C29_Allowed(i, val, s) ==
    \A r \in C29_Link(i) :
        C29_Holds(r, (Ref("equipment_status", i) :> 2 * s) @@ val)

\* the production of the last material under the last formula
C29_Last(i) ==
    Ref("production",
        <<materials[Len(materials)], i[1], formulas[Len(formulas)], i[2]>>)

C29_AtIndex(i) ==
    \A v \in C29_Refs(i) :
        \A h \in C29_HalfBatches, g \in {0, 1} :
            LET w == C29_Last(i)
                val == (v :> h) @@ (w :> g) @@ AllAt(C29_Refs(i), 0)
                total == IF v = w THEN h ELSE h + g
            IN /\ (\E s \in {0, 1} : C29_Allowed(i, val, s))
                     <=> (total = 0 \/ (2 <= total /\ total <= 2 * BIG_M))
               /\ total = 1 => ~ \E s \in {0, 1} : C29_Allowed(i, val, s)
               /\ ( /\ C29_CapacityOf(i[1]) <= BIG_M * minimum_units_in_batch
                    /\ \A r \in C29_CapacityRows(i) : C29_Holds(r, val)
                    /\ total >= 2 )
                  => C29_Allowed(i, val, 1)

C29_BatchesOnEquipment ==
    pc = "production" =>
        /\ equipment_status.domain = "Binary"
        /\ \A i \in equipment_status.index :
              /\ Cardinality(C29_Link(i)) = 2
              /\ Cardinality(C29_CapacityRows(i)) = Len(formulas)
              /\ C29_AtIndex(i)

C29_Witness ==
    /\ pc = "production"
    /\ materials = <<"A", "B">>
    /\ formulas = <<"F1", "F2">>
    /\ minimum_units_in_batch = 10
    /\ C29_CapacityOf("E2") = 30
    /\ \E r \in C29_CapacityRows(<<"E2", 9>>) :
          /\ r.index[2] = "F1"
          /\ C29_Holds(r, Ref("production", <<"A", "E2", "F1", 9>>) :> 3
                          @@ Ref("production", <<"B", "E2", "F1", 9>>) :> 3)
          /\ ~ C29_Holds(r, Ref("production", <<"A", "E2", "F1", 9>>) :> 3
                            @@ Ref("production", <<"B", "E2", "F1", 9>>) :> 4)

====
